---- MODULE Spec2Model ----
(***************************************************************************)
(* nmeta traffic classification: the policy condition evaluator            *)
(* (tc_policy.py, TrafficClassificationPolicy) and the statistical flow    *)
(* classifier with its Flow Classification In Progress table               *)
(* (tc_statistical.py, StatisticalInspect).                                *)
(*                                                                         *)
(* Python values are encoded as follows.                                   *)
(*  - An "actions" value is a record [kind, d]: kind is "False", "0" or    *)
(*    "none" for the Python values False, 0 and 'none', and "dict" for a   *)
(*    dictionary, whose content is the function d.                         *)
(*  - A conditions dictionary is a record [match_type, keys]: keys is the  *)
(*    sequence of its keys in the order conditions.keys() yields them.     *)
(*    A key is a record [attr, m, cti, sub]: attr is the key string, sub   *)
(*    the nested conditions dictionary of a 'conditions...' key, and m,    *)
(*    cti the answer the collaborator (tc_static, tc_identity, tc_payload) *)
(*    gives for this attribute, its policy value and the packet checked.   *)
(***************************************************************************)
EXTENDS Integers, Sequences, FiniteSets, TLC

\* ------------------------------------------------------------------ bounds

\* Leaf attributes per conditions dictionary (besides match_type).
MaxAttrs == 2
\* Rules in the policy handed to check_policy.
MaxRules == 2
\* Samples a record may take (the guard that keeps number_of_packets finite).
MaxSamples == 6
\* The last value of time.time() (the guard that keeps the clock finite).
MaxClock == 2
\* Records in the flow table (the guard that keeps _fcip_ref finite).
MaxFlows == 2
\* the longest TCP options field of the SYN segments of SpecOptions
MaxOptionLen == 4

\* ------------------------------------------------------- python encodings

EmptyDict == [k \in {} |-> "x"]
PyFalse == [kind |-> "False", d |-> EmptyDict]
PyDict(f) == [kind |-> "dict", d |-> f]
IsDict(v) == v.kind = "dict"

\* The merge in which an earlier item is kept.
DictOfItemsFirstWins(a, b) ==
    [k \in (DOMAIN a) \cup (DOMAIN b) |-> IF k \in DOMAIN a THEN a[k] ELSE b[k]]

\* dict(a.items() + b.items()): a later item replaces an earlier one.
DictOfItems(a, b) ==
    [k \in (DOMAIN a) \cup (DOMAIN b) |-> IF k \in DOMAIN b THEN b[k] ELSE a[k]]

\* ---------------------------------------------------------- tc_policy.py

TC_CONFIG_MATCH_TYPES == {"any", "all", "statistical"}
TC_CONFIG_ACTIONS == {"set_qos_tag", "set_desc_tag", "pass_return_tags"}

StaticAttrs == {"tcp_src", "tcp_dst"}
LeafAttrNames == StaticAttrs \cup
    {"identity_lldp_systemname", "payload_type", "statistical_qos_bandwidth_1"}

\* policy_attr[0:10] == 'conditions' gives "conditions", otherwise
\* policy_attr.split("_")[0].
PolicyAttrType(attr) ==
    CASE attr = "conditions 1" -> "conditions"
      [] attr = "conditions 2" -> "conditions"
      [] attr = "match_type" -> "match"
      [] attr = "tcp_src" -> "tcp"
      [] attr = "tcp_dst" -> "tcp"
      [] attr = "identity_lldp_systemname" -> "identity"
      [] attr = "payload_type" -> "payload"
      [] attr = "statistical_qos_bandwidth_1" -> "statistical"

NoConditions == [match_type |-> "none", keys |-> <<>>]
MatchTypeKey == [attr |-> "match_type", m |-> FALSE, cti |-> FALSE, sub |-> NoConditions]
LeafKey(a, m, c) == [attr |-> a, m |-> m, cti |-> c, sub |-> NoConditions]
NestedKey(a, n) == [attr |-> a, m |-> FALSE, cti |-> FALSE, sub |-> n]

\* ------------------------------------------------ the inputs that are drawn

RECURSIVE Perms(_)
Perms(S) ==
    IF S = {} THEN {<<>>}
    ELSE UNION {{<<x>> \o p : p \in Perms(S \ {x})} : x \in S}

\* The keys a leaf attribute can be: payload answers carry continue_to_inspect.
LeafKeysOf(a) ==
    IF PolicyAttrType(a) = "payload"
    THEN {LeafKey(a, m, c) : m \in BOOLEAN, c \in BOOLEAN}
    ELSE {LeafKey(a, m, FALSE) : m \in BOOLEAN}

\* Sets of leaf keys with pairwise distinct names (dictionary keys are unique)
\* over the names N, between 1 and n of them.
LeafKeySets(N, n) ==
    {S \in SUBSET (UNION {LeafKeysOf(a) : a \in N}) :
        /\ Cardinality(S) >= 1
        /\ Cardinality(S) <= n
        /\ \A x \in S, y \in S : x.attr = y.attr => x = y}

NodesOver(KeySets) ==
    {[match_type |-> mt, keys |-> p] :
        mt \in TC_CONFIG_MATCH_TYPES,
        p \in UNION {Perms(S \cup {MatchTypeKey}) : S \in KeySets}}

\* Dictionaries without nested conditions.
FlatConditions == NodesOver(LeafKeySets(LeafAttrNames, MaxAttrs))

\* Nested dictionaries: leaves answered by the static matcher.
InnerConditions == NodesOver(LeafKeySets(StaticAttrs, MaxAttrs))

\* Dictionaries holding one nested conditions dictionary and at most one leaf.
NestedConditions ==
    NodesOver({{NestedKey("conditions 1", n)} \cup L :
        n \in InnerConditions,
        L \in {{}} \cup {{k} : k \in LeafKeysOf("tcp_src")}})

AllConditions == FlatConditions \cup NestedConditions

\* Packets as check_policy sees them: the ethertype decides the identity calls.
ETH_TYPE_LLDP == 35020
ETH_TYPE_IP == 2048
ETH_TYPE_ARP == 2054
EtherTypes == {ETH_TYPE_LLDP, ETH_TYPE_IP, ETH_TYPE_ARP}

\* ------------------------------------------------------------------ state

VARIABLES
    tc_policy,     \* self._tc_policy: the rules [conditions, actions] in keys() order
    pc,            \* where the caller of the evaluator stands
    rule_idx,      \* check_policy: position of policy_rule in the rule loop
    evaluated,     \* check_policy: rules whose conditions were handed to _check_conditions
    returned,      \* check_policy: the _result_dict each of those calls returned
    conditions,    \* argument of the outermost _check_conditions call
    stack,         \* activation records of _check_conditions, innermost last
    match_type,    \* self.match_type, an attribute of the instance
    calls,         \* collaborator invocations made by the outermost call, in order
    identity_in,   \* identity.lldp_in / identity.ip4_in invocations of check_policy
    result         \* value returned to the caller

policy_vars == <<tc_policy, pc, rule_idx, evaluated, returned, conditions, stack,
                 match_type, calls, identity_in, result>>

VARIABLES
    fcip_table,    \* self._fcip_table: reference -> record
    fcip_ref,      \* self._fcip_ref
    clock,         \* time.time()
    pkt_in,        \* the packet the last event handed to the classifier, if any
    stat_ret,      \* what that call returned, or the error it raised
    called,        \* the method of StatisticalInspect the last event called
                   \* and the policy attribute or maximum age it was given
    workers        \* per worker running _statistical_qos_bandwidth_1: where
                   \* it is in the method, its packet and its _table_ref

flow_vars == <<fcip_table, fcip_ref, clock, pkt_in, stat_ret, called, workers>>

vars == <<policy_vars, flow_vars>>

\* ------------------------------------------------- _check_conditions

InitialResultDict == [match |-> TRUE, continue_to_inspect |-> FALSE, actions |-> PyFalse]

\* Lines 336-337 and the loop variables of one activation. phase is the place
\* in the body: "loop" (line 340), "call" (inside the recursive call of line
\* 364), "decide" (line 377) and "ret" (a return statement was executed).
NewFrame(node) ==
    [node |-> node, i |-> 1, phase |-> "loop", match |-> FALSE, rd |-> InitialResultDict]

Top == stack[Len(stack)]
TopKey == Top.node.keys[Top.i]
SetTop(f) == [stack EXCEPT ![Len(stack)] = f]

\* Lines 350-376 for a key that is not a nested conditions dictionary:
\* the matcher invoked ("" for none), _match and continue_to_inspect.
AttrDispatch(key, rd) ==
    LET t == PolicyAttrType(key.attr) IN
    CASE t = "identity" ->
            [matcher |-> "identity", match |-> key.m,
             cti |-> rd.continue_to_inspect]
      [] t = "payload" ->
            [matcher |-> "payload", match |-> key.m,
             cti |-> IF key.m THEN key.cti ELSE rd.continue_to_inspect]
      [] key.attr = "match_type" /\ t \notin {"identity", "payload"} ->
            [matcher |-> "", match |-> FALSE, cti |-> rd.continue_to_inspect]
      [] OTHER ->
            [matcher |-> "static", match |-> key.m,
             cti |-> rd.continue_to_inspect]

\* Lines 377-386: what the loop body does with _match and self.match_type.
Decision(m, mt) ==
    IF m /\ mt = "any" THEN "return_true"
    ELSE IF ~m /\ mt = "all" THEN "return_false"
    ELSE "continue"

\* Lines 389-401: the result after the loop has run through all keys.
Fallback(m, mt) ==
    IF ~m /\ mt = "any" THEN FALSE
    ELSE IF m /\ mt = "all" THEN TRUE
    ELSE FALSE

\* Line 338, executed on entry of every activation.
EnterMatchType(node) == node.match_type

Dispatch ==
    /\ stack # <<>>
    /\ Top.phase = "loop"
    /\ Top.i <= Len(Top.node.keys)
    /\ PolicyAttrType(TopKey.attr) # "conditions"
    /\ LET r == AttrDispatch(TopKey, Top.rd) IN
        /\ stack' = SetTop([Top EXCEPT !.phase = "decide", !.match = r.match,
                                       !.rd.continue_to_inspect = r.cti])
        /\ calls' = IF r.matcher = "" THEN calls
                    ELSE Append(calls, [matcher |-> r.matcher, attr |-> TopKey.attr,
                                        depth |-> Len(stack)])
    /\ UNCHANGED <<tc_policy, pc, rule_idx, evaluated, returned, conditions, match_type,
                   identity_in, result>>
    /\ UNCHANGED flow_vars

\* Line 364: the recursive call on a nested conditions dictionary.
Recurse ==
    /\ stack # <<>>
    /\ Top.phase = "loop"
    /\ Top.i <= Len(Top.node.keys)
    /\ PolicyAttrType(TopKey.attr) = "conditions"
    /\ stack' = Append(SetTop([Top EXCEPT !.phase = "call"]), NewFrame(TopKey.sub))
    /\ match_type' = EnterMatchType(TopKey.sub)
    /\ UNCHANGED <<tc_policy, pc, rule_idx, evaluated, returned, conditions, calls,
                   identity_in, result>>
    /\ UNCHANGED flow_vars

Decide ==
    /\ stack # <<>>
    /\ Top.phase = "decide"
    /\ LET d == Decision(Top.match, match_type) IN
        stack' = SetTop(
            CASE d = "return_true" -> [Top EXCEPT !.phase = "ret", !.rd.match = TRUE]
              [] d = "return_false" -> [Top EXCEPT !.phase = "ret", !.rd.match = FALSE]
              [] OTHER -> [Top EXCEPT !.phase = "loop", !.i = @ + 1])
    /\ UNCHANGED <<tc_policy, pc, rule_idx, evaluated, returned, conditions, match_type,
                   calls, identity_in, result>>
    /\ UNCHANGED flow_vars

LoopEnd ==
    /\ stack # <<>>
    /\ Top.phase = "loop"
    /\ Top.i > Len(Top.node.keys)
    /\ stack' = SetTop([Top EXCEPT !.phase = "ret",
                                   !.rd.match = Fallback(Top.match, match_type)])
    /\ UNCHANGED <<tc_policy, pc, rule_idx, evaluated, returned, conditions, match_type,
                   calls, identity_in, result>>
    /\ UNCHANGED flow_vars

\* Lines 365-369: the caller takes the nested result.
ReturnNested ==
    /\ Len(stack) > 1
    /\ Top.phase = "ret"
    /\ LET parent == stack[Len(stack) - 1] IN
        stack' = [SubSeq(stack, 1, Len(stack) - 1) EXCEPT ![Len(stack) - 1] =
                    [parent EXCEPT !.phase = "decide", !.match = Top.rd.match,
                                   !.rd.continue_to_inspect = Top.rd.continue_to_inspect]]
    /\ UNCHANGED <<tc_policy, pc, rule_idx, evaluated, returned, conditions, match_type,
                   calls, identity_in, result>>
    /\ UNCHANGED flow_vars

\* A direct call of _check_conditions(pkt, conditions), as the tests make it,
\* on a dictionary of the set Inputs.
CallCheckConditions(Inputs) ==
    /\ pc = "idle"
    /\ \E node \in Inputs :
        /\ conditions' = node
        /\ stack' = <<NewFrame(node)>>
        /\ match_type' = EnterMatchType(node)
    /\ pc' = "conditions"
    /\ calls' = <<>>
    /\ UNCHANGED <<tc_policy, rule_idx, evaluated, returned, identity_in, result>>
    /\ UNCHANGED flow_vars

ReturnDirect ==
    /\ pc = "conditions"
    /\ Len(stack) = 1
    /\ Top.phase = "ret"
    /\ result' = Top.rd
    /\ stack' = <<>>
    /\ pc' = "done"
    /\ UNCHANGED <<tc_policy, rule_idx, evaluated, returned, conditions, match_type, calls,
                   identity_in>>
    /\ UNCHANGED flow_vars

\* ------------------------------------------------------- check_policy

\* Lines 300-309: merge of the rule's actions with the actions returned by
\* _check_conditions.
MergeActions(rule_actions, result_actions) ==
    IF IsDict(rule_actions) /\ IsDict(result_actions)
    THEN PyDict(DictOfItems(rule_actions.d, result_actions.d))
    ELSE IF IsDict(rule_actions) THEN rule_actions
    ELSE IF IsDict(result_actions) THEN result_actions
    ELSE PyFalse

\* Lines 283-289: which identity entry points see the packet.
IdentityCalls(ethertype) ==
    (IF ethertype = ETH_TYPE_LLDP THEN {"lldp_in"} ELSE {}) \cup
    (IF ethertype = ETH_TYPE_IP THEN {"ip4_in"} ELSE {})

\* Lines 315-316.
NoHitsResult == [match |-> FALSE, continue_to_inspect |-> FALSE, actions |-> PyFalse]

\* A rule loop that stops at no result.
RuleMatchedNever(rd) == FALSE

\* Line 294: does the loop over the rules stop at this result?
RuleMatched(rd) == rd.match

\* Lines 282-290: entry of check_policy up to the head of the rule loop.
CheckPolicy(Inputs) ==
    /\ pc \in {"idle", "done"}
    /\ \E ethertype \in Inputs : identity_in' = IdentityCalls(ethertype)
    /\ rule_idx' = 1
    /\ evaluated' = <<>>
    /\ returned' = <<>>
    /\ pc' = "rules"
    /\ UNCHANGED <<tc_policy, conditions, stack, match_type, calls, result>>
    /\ UNCHANGED flow_vars

\* Lines 291-293: the next rule's conditions are handed to _check_conditions.
RuleCall ==
    /\ pc = "rules"
    /\ rule_idx <= Len(tc_policy)
    /\ evaluated' = Append(evaluated, rule_idx)
    /\ conditions' = tc_policy[rule_idx].conditions
    /\ stack' = <<NewFrame(tc_policy[rule_idx].conditions)>>
    /\ match_type' = EnterMatchType(tc_policy[rule_idx].conditions)
    /\ calls' = <<>>
    /\ pc' = "rule_conditions"
    /\ UNCHANGED <<tc_policy, rule_idx, returned, identity_in, result>>
    /\ UNCHANGED flow_vars

\* Lines 294-313: the result of the rule's conditions comes back.
RuleReturn ==
    /\ pc = "rule_conditions"
    /\ Len(stack) = 1
    /\ Top.phase = "ret"
    /\ stack' = <<>>
    /\ returned' = Append(returned, Top.rd)
    /\ IF RuleMatched(Top.rd)
       THEN /\ result' = [Top.rd EXCEPT !.actions =
                            MergeActions(tc_policy[rule_idx].actions, Top.rd.actions)]
            /\ pc' = "done"
            /\ UNCHANGED rule_idx
       ELSE /\ rule_idx' = rule_idx + 1
            /\ pc' = "rules"
            /\ UNCHANGED result
    /\ UNCHANGED <<tc_policy, evaluated, conditions, match_type, calls, identity_in>>
    /\ UNCHANGED flow_vars

\* Lines 314-317: the loop ran through all rules.
NoHits ==
    /\ pc = "rules"
    /\ rule_idx > Len(tc_policy)
    /\ result' = NoHitsResult
    /\ pc' = "done"
    /\ UNCHANGED <<tc_policy, rule_idx, evaluated, returned, conditions, stack, match_type,
                   calls, identity_in>>
    /\ UNCHANGED flow_vars

\* ------------------------------------------------------ tc_statistical.py

\* What reading a key that was never set yields: nmisc.AutoVivification
\* creates an empty dictionary, which is false in a condition, unequal to
\* every number and, in Python 2, greater than every number.
Empty == -1
Truthy(x) == x # 0 /\ x # Empty
PyGreater(a, b) ==
    IF a = Empty THEN b # Empty
    ELSE IF b = Empty THEN FALSE
    ELSE a > b

Py0 == [kind |-> "0", d |-> EmptyDict]
QosTag(v) == PyDict([k \in {"set_qos_tag"} |-> v])

\* _statistical_qos_bandwidth_1, lines 123-126.
MAX_PACKETS == 5
MAX_PACKET_SIZE_THRESHOLD == 1200
\* _interpacket_ratio_threshold = 0.25 = 1 / RATIO_THRESHOLD_DENOMINATOR
RATIO_THRESHOLD_DENOMINATOR == 4
\* _tcp_syn_flag, line 576.
TCP_SYN_MASK == 2
\* __init__, line 88.
EXTRA_DEBUGGING == 1

\* bits & _tcp_syn_mask, for the one-byte flags field.
TcpSynFlag(bits) == (bits \div TCP_SYN_MASK) % 2 = 1

\* A shift that leaves the window size as it is.
ShiftLeftNone(x, n) == x

\* window_size << shift
RECURSIVE ShiftLeft(_, _)
ShiftLeft(x, n) == IF n = 0 THEN x ELSE ShiftLeft(2 * x, n - 1)

\* _tcp_window_scale from _position on: option is the sequence of bytes,
\* _position counts from 0. The outcome is the returned value, an IndexError
\* (a read at or past the end of the byte array) or a loop that never ends
\* (a length byte of 0 leaves _position where it was).
RECURSIVE TcpWindowScaleFrom(_, _)
TcpWindowScaleFrom(option, position) ==
    IF position > Len(option) THEN [kind |-> "value", v |-> 0]
    ELSE IF position = Len(option) THEN [kind |-> "IndexError", v |-> 0]
    ELSE LET type == option[position + 1] IN
        IF type = 0 \/ type = 1 THEN TcpWindowScaleFrom(option, position + 1)
        ELSE IF type = 3
        THEN IF position + 2 >= Len(option)
             THEN [kind |-> "IndexError", v |-> 0]
             ELSE [kind |-> "value", v |-> option[position + 3]]
        ELSE IF position + 1 >= Len(option)
        THEN [kind |-> "IndexError", v |-> 0]
        ELSE LET len == option[position + 2] IN
             IF len = 0 THEN [kind |-> "hang", v |-> 0]
             ELSE TcpWindowScaleFrom(option, position + len)

TcpWindowScale(option) == TcpWindowScaleFrom(option, 0)

\* A record as _fcip_add_new leaves a key of the table that held nothing.
\* The per-packet dictionaries direction, arrival_time, ip_total_length,
\* window_size, ack and bits are sequences indexed by packet number (an entry
\* Empty is one that was read but never written); TCP_SYN is the set of packet
\* numbers marked "SYN"; the dictionaries of statistics are functions of the
\* packet numbers they hold.
NoStats == [n \in {} |-> 0]
BlankRecord ==
    [direction |-> <<>>, finalised |-> Empty, actions |-> Py0,
     ip_A |-> "", ip_B |-> "", tcp_A |-> Empty, tcp_B |-> Empty,
     udp_A |-> Empty, udp_B |-> Empty, csum |-> <<>>,
     arrival_time |-> <<>>, ip_total_length |-> <<>>, TCP_SYN |-> {},
     window_scale |-> [forward |-> Empty, reverse |-> Empty],
     window_size |-> <<>>, ack |-> <<>>, bits |-> <<>>,
     number_of_packets |-> Empty,
     max_packet_size |-> NoStats, max_window_growth_ratio |-> NoStats,
     min_interpacket |-> NoStats, last_interpacket |-> NoStats,
     time_last |-> Empty]

\* _fcip_check_ip, lines 403-417.
FcipCheckIp(rec, ip_A, ip_B) ==
    IF ip_A = rec.ip_A /\ ip_B = rec.ip_B THEN "forward"
    ELSE IF ip_A = rec.ip_B /\ ip_B = rec.ip_A THEN "reverse"
    ELSE "False"

\* _fcip_check_tcp, lines 419-437.
FcipCheckTcp(rec, ip_match, tcp_A, tcp_B) ==
    IF ip_match = "forward" /\ tcp_A = rec.tcp_A /\ tcp_B = rec.tcp_B THEN TRUE
    ELSE IF ip_match = "reverse" /\ tcp_A = rec.tcp_B /\ tcp_B = rec.tcp_A THEN TRUE
    ELSE FALSE

\* _fcip_check, lines 376-401: the first matching reference in the order the
\* table is iterated (ascending, its keys being small integers), 0 for None.
FcipMatches(table, pkt) ==
    {r \in DOMAIN table :
        LET m == FcipCheckIp(table[r], pkt.src, pkt.dst) IN
        m # "False" /\ FcipCheckTcp(table[r], m, pkt.src_port, pkt.dst_port)}

FcipCheck(table, pkt) ==
    LET M == FcipMatches(table, pkt) IN
    IF M = {} THEN 0 ELSE CHOOSE r \in M : \A q \in M : r <= q

\* A table that reports no record as finalised.
FcipIsFinalisedNever(rec) == FALSE

\* _fcip_is_finalised, lines 365-374.
FcipIsFinalised(rec) == rec.finalised = 1

\* _fcip_finalise, lines 358-363.
FcipFinalise(rec) == [rec EXCEPT !.finalised = 1]

\* The value of a local variable: the one element of a singleton, so that
\* an expression bound by  x \in {e}  is computed once, as an assignment is.
The(S) == CHOOSE v \in S : TRUE

\* _calc_max_packet_size, lines 190-199.
RECURSIVE MaxSizeFrom(_, _, _)
MaxSizeFrom(sizes, n, max_size) ==
    IF n > Len(sizes) THEN max_size
    ELSE The({MaxSizeFrom(sizes, n + 1, next) :
                next \in {IF sizes[n] > max_size THEN sizes[n] ELSE max_size}})

CalcMaxPacketSize(rec) == MaxSizeFrom(rec.ip_total_length, 1, 0)

\* _calc_max_window_growth, lines 201-236: the loop over the packets, then
\* the two ratios. A ratio is kept as the pair <<max, first>> of the float
\* max / first; the outcome "UnboundLocalError" is the read of a ratio that
\* no branch assigned.
WindowStep(rec, n, acc) ==
    LET size == rec.window_size[n]
        fwd == rec.direction[n] = "forward"
        rev == rec.direction[n] = "reverse"
    IN  [first_forward |-> IF fwd /\ ~Truthy(acc.first_forward) THEN size
                           ELSE acc.first_forward,
         max_forward |-> IF fwd /\ PyGreater(size, acc.max_forward) THEN size
                         ELSE acc.max_forward,
         first_reverse |-> IF rev /\ ~Truthy(acc.first_reverse) THEN size
                           ELSE acc.first_reverse,
         max_reverse |-> IF rev /\ PyGreater(size, acc.max_reverse) THEN size
                         ELSE acc.max_reverse]

RECURSIVE WindowLoop(_, _, _)
WindowLoop(rec, n, acc) ==
    IF n > Len(rec.window_size) THEN acc
    ELSE The({WindowLoop(rec, n + 1, next) : next \in {WindowStep(rec, n, acc)}})

WindowRatios(a) ==
    LET has_forward == Truthy(a.first_forward) /\ Truthy(a.max_forward)
        has_reverse == Truthy(a.first_reverse) /\ Truthy(a.max_reverse)
        forward_ratio == <<a.max_forward, a.first_forward>>
        reverse_ratio == <<a.max_reverse, a.first_reverse>>
    IN  IF ~has_forward \/ ~has_reverse
        THEN [kind |-> "UnboundLocalError", v |-> <<0, 1>>]
        ELSE IF forward_ratio[1] * reverse_ratio[2] > reverse_ratio[1] * forward_ratio[2]
        THEN [kind |-> "value", v |-> forward_ratio]
        ELSE IF reverse_ratio[1] * forward_ratio[2] > forward_ratio[1] * reverse_ratio[2]
        THEN [kind |-> "value", v |-> reverse_ratio]
        ELSE [kind |-> "value", v |-> forward_ratio]

CalcMaxWindowGrowth(rec) ==
    The({WindowRatios(a) :
            a \in {WindowLoop(rec, 1, [first_forward |-> 0, max_forward |-> 0,
                                       first_reverse |-> 0, max_reverse |-> 0])}})

\* The loops of _calc_max_interpacket_interval (lines 238-282, pick = "max"),
\* _calc_min_interpacket_interval (lines 284-328, pick = "min") and
\* _calc_last_interpacket_interval (lines 330-356, pick = "last").
IntervalStep(rec, pick, n, acc) ==
    LET t == rec.arrival_time[n]
        d == rec.direction[n]
        prev == IF d = "forward" THEN acc.previous_forward
                ELSE acc.previous_reverse
        interval == t - prev
        known == d \in {"forward", "reverse"}
    IN  [value |->
            IF ~known \/ ~Truthy(prev) THEN acc.value
            ELSE IF pick = "last" THEN interval
            ELSE IF ~Truthy(acc.value) THEN interval
            ELSE IF pick = "max" /\ interval > acc.value THEN interval
            ELSE IF pick = "min" /\ interval < acc.value THEN interval
            ELSE acc.value,
         previous_forward |-> IF d = "forward" THEN t ELSE acc.previous_forward,
         previous_reverse |-> IF d = "reverse" THEN t ELSE acc.previous_reverse]

RECURSIVE IntervalLoop(_, _, _, _)
IntervalLoop(rec, pick, n, acc) ==
    IF n > Len(rec.arrival_time) THEN acc.value
    ELSE The({IntervalLoop(rec, pick, n + 1, next) :
                next \in {IntervalStep(rec, pick, n, acc)}})

IntervalStart == [value |-> 0, previous_forward |-> 0, previous_reverse |-> 0]

CalcMaxInterpacketInterval(rec) == IntervalLoop(rec, "max", 1, IntervalStart)
CalcMinInterpacketInterval(rec) == IntervalLoop(rec, "min", 1, IntervalStart)
CalcLastInterpacketInterval(rec) == IntervalLoop(rec, "last", 1, IntervalStart)

\* A check that reports no packet as a duplicate.
FcipCheckDuplicateNever(rec, pkt) == "False"

\* _fcip_check_duplicate, lines 549-569. xrange(1, number_of_packets + 1)
\* is a TypeError when number_of_packets was never set; a window size that
\* was never written reads as an empty dictionary, which equals no number.
FcipCheckDuplicate(rec, pkt) ==
    IF rec.number_of_packets = Empty THEN "TypeError"
    ELSE IF \E n \in 1..rec.number_of_packets :
                /\ n <= Len(rec.window_size)
                /\ rec.window_size[n] = pkt.window_size
                /\ rec.ack[n] = pkt.ack
                /\ rec.bits[n] = pkt.bits
         THEN "True"
         ELSE "False"

SetFirst(seq, v) == IF seq = <<>> THEN <<v>> ELSE [seq EXCEPT ![1] = v]

\* dictionary[n] = v on a per-packet dictionary: the entries below n that
\* were never written are Empty (the duplicate checks have read them).
SetAt(seq, n, v) ==
    [i \in 1..(IF n > Len(seq) THEN n ELSE Len(seq)) |->
        IF i = n THEN v ELSE IF i <= Len(seq) THEN seq[i] ELSE Empty]

\* _fcip_add_new, lines 439-481, on the record that the key _fcip_ref holds
\* (BlankRecord when it holds none): the record as the method leaves it and
\* whether it ran to its end (kind "return") or _tcp_window_scale failed.
FcipAddNew(prior, pkt, time) ==
    LET syn == TcpSynFlag(pkt.bits)
        scale == TcpWindowScale(pkt.option)
        r1 == [prior EXCEPT
                !.direction = SetFirst(@, "forward"),
                !.finalised = 0,
                !.actions = Py0,
                !.ip_A = pkt.src, !.ip_B = pkt.dst,
                !.tcp_A = pkt.src_port, !.tcp_B = pkt.dst_port,
                !.arrival_time = SetFirst(@, time),
                !.ip_total_length = SetFirst(@, pkt.total_length),
                !.TCP_SYN = IF syn THEN @ \cup {1} ELSE @]
        r2 == [r1 EXCEPT
                !.window_scale.forward = IF syn THEN scale.v ELSE @,
                !.window_size = SetFirst(@, pkt.window_size),
                !.ack = SetFirst(@, pkt.ack),
                !.bits = SetFirst(@, pkt.bits),
                !.number_of_packets = 1]
    IN  IF syn /\ scale.kind # "value"
        THEN [kind |-> scale.kind, rec |-> r1]
        ELSE [kind |-> "return", rec |-> r2]

\* _fcip_add_to_existing, lines 497-508: the packet number, the direction,
\* the arrival time, the size and the SYN mark of the new sample.
SampleHead(rec, pkt, time) ==
    LET n == rec.number_of_packets + 1 IN
    [rec EXCEPT
        !.number_of_packets = n,
        !.direction = Append(@, FcipCheckIp(rec, pkt.src, pkt.dst)),
        !.arrival_time = Append(@, time),
        !.ip_total_length = Append(@, pkt.total_length),
        !.TCP_SYN = IF TcpSynFlag(pkt.bits) THEN @ \cup {n} ELSE @]

\* The sample when _tcp_window_scale raised at line 524: the read of the
\* entries it never got leaves them Empty.
SampleFailed(r1) ==
    [r1 EXCEPT
        !.window_size = SetAt(@, r1.number_of_packets, Empty),
        !.ack = SetAt(@, r1.number_of_packets, Empty),
        !.bits = SetAt(@, r1.number_of_packets, Empty)]

\* Lines 517-534: the window scale and the TCP fields of the new sample.
SampleTcp(rec, r1, pkt, scale) ==
    LET direction == FcipCheckIp(rec, pkt.src, pkt.dst)
        syn == TcpSynFlag(pkt.bits)
        shift == IF direction = "forward" THEN rec.window_scale.forward
                 ELSE IF direction = "reverse" THEN rec.window_scale.reverse
                 ELSE Empty
        tcp_window_size ==
            IF ~syn /\ Truthy(shift) THEN ShiftLeft(pkt.window_size, shift)
            ELSE pkt.window_size
    IN  [r1 EXCEPT
            !.window_scale.reverse =
                IF syn /\ direction = "reverse" THEN scale.v ELSE @,
            !.window_size = SetAt(@, r1.number_of_packets, tcp_window_size),
            !.ack = SetAt(@, r1.number_of_packets, pkt.ack),
            !.bits = SetAt(@, r1.number_of_packets, pkt.bits)]

\* Lines 532-547: the statistics recorded for packet n when extra_debugging
\* is set, and the packet number returned.
SampleStatistics(r2, n) ==
    IF EXTRA_DEBUGGING = 0 THEN [kind |-> "return", rec |-> r2, n |-> n]
    ELSE The({The({
            IF growth.kind # "value"
            THEN [kind |-> growth.kind, rec |-> r3, n |-> 0]
            ELSE [kind |-> "return",
                  rec |-> [r3 EXCEPT
                    !.max_window_growth_ratio = (n :> growth.v) @@ @,
                    !.min_interpacket = (n :> CalcMinInterpacketInterval(r3)) @@ @,
                    !.last_interpacket = (n :> CalcLastInterpacketInterval(r3)) @@ @],
                  n |-> n] :
            growth \in {CalcMaxWindowGrowth(r3)}}) :
         r3 \in {[r2 EXCEPT !.max_packet_size = (n :> CalcMaxPacketSize(r2)) @@ @]}})

\* _fcip_add_to_existing, lines 483-547: the record as the method leaves
\* it, the packet number it returns (0 for a duplicate) and how it ended.
FcipAddToExisting(rec, pkt, time) ==
    LET dup == FcipCheckDuplicate(rec, pkt)
        direction == FcipCheckIp(rec, pkt.src, pkt.dst)
        syn == TcpSynFlag(pkt.bits)
        scale == TcpWindowScale(pkt.option)
    IN  IF dup = "TypeError" THEN [kind |-> "TypeError", rec |-> rec, n |-> 0]
        ELSE IF dup = "True" THEN [kind |-> "return", rec |-> rec, n |-> 0]
        ELSE The({
            IF syn /\ direction = "reverse" /\ scale.kind # "value"
            THEN [kind |-> scale.kind, rec |-> SampleFailed(r1), n |-> 0]
            ELSE The({SampleStatistics(r2, r2.number_of_packets) :
                        r2 \in {SampleTcp(rec, r1, pkt, scale)}}) :
            r1 \in {SampleHead(rec, pkt, time)}})

\* Lines 158-163 and 167-168: is _interpacket_ratio below the threshold?
\* The ratio is min / max when both are non-zero and 0 otherwise.
RatioBelowThreshold(min_interval, max_interval) ==
    IF Truthy(max_interval) /\ Truthy(min_interval)
    THEN RATIO_THRESHOLD_DENOMINATOR * min_interval < max_interval
    ELSE TRUE

\* Lines 153-173: the actions decided for a record that reached the cap.
DecideActions(rec) ==
    IF /\ CalcMaxPacketSize(rec) > MAX_PACKET_SIZE_THRESHOLD
       /\ RatioBelowThreshold(CalcMinInterpacketInterval(rec),
                              CalcMaxInterpacketInterval(rec))
    THEN QosTag("QoS_treatment=low_priority")
    ELSE QosTag("QoS_treatment=default_priority")

\* Line 145: does the count returned by _fcip_add_to_existing end the sampling?
ReachedMaxPackets(flow_packet_count) == flow_packet_count > MAX_PACKETS - 1

Returned(cti, actions) ==
    [kind |-> "return", valid |-> TRUE, continue_to_inspect |-> cti, actions |-> actions]
Raised(error) ==
    [kind |-> error, valid |-> FALSE, continue_to_inspect |-> FALSE, actions |-> Py0]

\* Lines 145-173: what the call does with the record and the packet number
\* that _fcip_add_to_existing left.
AfterAddToExisting(table, table_ref, a) ==
    IF a.kind # "return"
    THEN [table |-> [table EXCEPT ![table_ref] = a.rec], ret |-> Raised(a.kind)]
    ELSE IF ReachedMaxPackets(a.n)
    THEN The({[table |-> [table EXCEPT ![table_ref] =
                            [FcipFinalise(a.rec) EXCEPT !.actions = actions]],
               ret |-> Returned(FALSE, actions)] :
              actions \in {DecideActions(FcipFinalise(a.rec))}})
    ELSE [table |-> [table EXCEPT ![table_ref] = a.rec],
          ret |-> Returned(TRUE, Py0)]

\* Lines 141-183: a packet of a flow that _fcip_check found at table_ref.
ClassifyExisting(table, table_ref, pkt, time) ==
    IF ~FcipIsFinalised(table[table_ref])
    THEN The({AfterAddToExisting(table, table_ref, a) :
                a \in {FcipAddToExisting(table[table_ref], pkt, time)}})
    ELSE [table |-> table, ret |-> Returned(FALSE, table[table_ref].actions)]

\* Lines 184-188: a packet of no known flow; the key _fcip_ref takes the
\* record and the counter moves on when _fcip_add_new ran to its end.
ClassifyNew(table, ref, a) ==
    IF a.kind # "return"
    THEN [table |-> (ref :> a.rec) @@ table, ref |-> ref, ret |-> Raised(a.kind)]
    ELSE [table |-> (ref :> a.rec) @@ table, ref |-> ref + 1,
          ret |-> Returned(TRUE, Py0)]

\* _statistical_qos_bandwidth_1, lines 112-188: the table, the reference
\* counter and the value returned (or the error raised) for one packet.
StatisticalQosBandwidth1(table, ref, pkt, time) ==
    IF pkt.proto # "tcp"
    THEN [table |-> table, ref |-> ref, ret |-> Returned(FALSE, Py0)]
    ELSE LET table_ref == FcipCheck(table, pkt) IN
         IF table_ref # 0
         THEN The({[table |-> c.table, ref |-> ref, ret |-> c.ret] :
                    c \in {ClassifyExisting(table, table_ref, pkt, time)}})
         ELSE The({ClassifyNew(table, ref, a) :
                    a \in {FcipAddNew(IF ref \in DOMAIN table THEN table[ref]
                                      ELSE BlankRecord, pkt, time)}})

\* ---------------------------------------------------------------------
\* The UDP classifier, lines 643-1010. It shares _fcip_table and _fcip_ref
\* with the TCP classifier.

\* _fcip_check_udp, lines 778-792.
FcipCheckUdp(rec, ip_match, udp_A, udp_B) ==
    IF ip_match = "forward" /\ udp_A = rec.udp_A /\ udp_B = rec.udp_B THEN TRUE
    ELSE IF ip_match = "reverse" /\ udp_A = rec.udp_B /\ udp_B = rec.udp_A THEN TRUE
    ELSE FALSE

\* _udp_fcip_check, lines 751-776: the first matching reference, 0 for None.
UdpFcipMatches(table, pkt) ==
    {r \in DOMAIN table :
        LET m == FcipCheckIp(table[r], pkt.src, pkt.dst) IN
        m # "False" /\ FcipCheckUdp(table[r], m, pkt.src_port, pkt.dst_port)}

UdpFcipCheck(table, pkt) ==
    LET M == UdpFcipMatches(table, pkt) IN
    IF M = {} THEN 0 ELSE CHOOSE r \in M : \A q \in M : r <= q

\* _udp_fcip_check_duplicate, lines 843-861.
UdpFcipCheckDuplicate(rec, pkt) ==
    IF rec.number_of_packets = Empty THEN "TypeError"
    ELSE IF \E n \in 1..rec.number_of_packets :
                n <= Len(rec.csum) /\ rec.csum[n] = pkt.csum
         THEN "True"
         ELSE "False"

\* _udp_fcip_add_new, lines 863-896, on the record that the key _fcip_ref
\* holds (BlankRecord when it holds none).
UdpFcipAddNew(prior, pkt, time) ==
    [prior EXCEPT
        !.direction = SetFirst(@, "forward"),
        !.finalised = 0,
        !.actions = Py0,
        !.ip_A = pkt.src, !.ip_B = pkt.dst,
        !.udp_A = pkt.src_port, !.udp_B = pkt.dst_port,
        !.arrival_time = SetFirst(@, time),
        !.ip_total_length = SetFirst(@, pkt.total_length),
        !.csum = SetFirst(@, pkt.csum),
        !.number_of_packets = 1]

\* _udp_fcip_add_to_existing, lines 813-841: the new sample and, when
\* extra_debugging is set, the statistics recorded for it.
UdpSample(rec, pkt, time) ==
    LET n == rec.number_of_packets + 1 IN
    [rec EXCEPT
        !.number_of_packets = n,
        !.direction = Append(@, FcipCheckIp(rec, pkt.src, pkt.dst)),
        !.arrival_time = Append(@, time),
        !.ip_total_length = Append(@, pkt.total_length),
        !.csum = SetAt(@, n, pkt.csum)]

UdpSampleStatistics(r1, n) ==
    IF EXTRA_DEBUGGING = 0 THEN r1
    ELSE The({[r2 EXCEPT
                !.min_interpacket = (n :> CalcMinInterpacketInterval(r2)) @@ @,
                !.last_interpacket = (n :> CalcLastInterpacketInterval(r2)) @@ @] :
              r2 \in {[r1 EXCEPT !.max_packet_size = (n :> CalcMaxPacketSize(r1)) @@ @]}})

\* _udp_fcip_add_to_existing, lines 794-841: the record as the method
\* leaves it and the packet number it returns (0 for a duplicate).
UdpFcipAddToExisting(rec, pkt, time) ==
    LET dup == UdpFcipCheckDuplicate(rec, pkt) IN
    IF dup = "TypeError" THEN [kind |-> "TypeError", rec |-> rec, n |-> 0]
    ELSE IF dup = "True" THEN [kind |-> "return", rec |-> rec, n |-> 0]
    ELSE The({[kind |-> "return",
               rec |-> UdpSampleStatistics(r1, r1.number_of_packets),
               n |-> r1.number_of_packets] :
              r1 \in {UdpSample(rec, pkt, time)}})

\* _udp_calc_max_packet_size, lines 898-912: the largest size per direction
\* and the larger of the two.
RECURSIVE UdpMaxSizeLoop(_, _, _)
UdpMaxSizeLoop(rec, n, acc) ==
    IF n > Len(rec.ip_total_length) THEN acc
    ELSE LET size == rec.ip_total_length[n]
             d == rec.direction[n]
         IN  The({UdpMaxSizeLoop(rec, n + 1, next) :
                next \in {IF d = "forward" /\ size > acc.forward
                          THEN [acc EXCEPT !.forward = size]
                          ELSE IF d = "reverse" /\ size > acc.reverse
                          THEN [acc EXCEPT !.reverse = size]
                          ELSE acc}})

UdpCalcMaxPacketSize(rec) ==
    The({[forward |-> m.forward, reverse |-> m.reverse,
          both |-> IF m.forward > m.reverse THEN m.forward ELSE m.reverse] :
         m \in {UdpMaxSizeLoop(rec, 1, [forward |-> 0, reverse |-> 0])}})

\* The loop body of _udp_calc_max_interpacket_interval (lines 926-956) and
\* of _udp_calc_min_interpacket_interval (lines 975-1005): pick is "max" or
\* "min".
UdpIntervalStep(rec, pick, n, acc) ==
    LET t == rec.arrival_time[n]
        d == rec.direction[n]
        prev == IF d = "forward" THEN acc.previous_forward ELSE acc.previous_reverse
        held == IF d = "forward" THEN acc.forward ELSE acc.reverse
        interval == t - prev
        kept == IF ~Truthy(held) THEN interval
                ELSE IF pick = "max" /\ interval > held THEN interval
                ELSE IF pick = "min" /\ interval < held THEN interval
                ELSE held
    IN  IF d = "forward"
        THEN [acc EXCEPT !.forward = IF Truthy(prev) THEN kept ELSE @,
                         !.previous_forward = t]
        ELSE IF d = "reverse"
        THEN [acc EXCEPT !.reverse = IF Truthy(prev) THEN kept ELSE @,
                         !.previous_reverse = t]
        ELSE acc

RECURSIVE UdpIntervalLoop(_, _, _, _)
UdpIntervalLoop(rec, pick, n, acc) ==
    IF n > Len(rec.arrival_time) THEN acc
    ELSE The({UdpIntervalLoop(rec, pick, n + 1, next) :
                next \in {UdpIntervalStep(rec, pick, n, acc)}})

\* _udp_calc_max_interpacket_interval, lines 914-961, and
\* _udp_calc_min_interpacket_interval, lines 963-1010: the interval per
\* direction and the larger (the smaller) of the two.
UdpCalcMaxInterpacketInterval(rec) ==
    The({[forward |-> m.forward, reverse |-> m.reverse,
          both |-> IF m.forward > m.reverse THEN m.forward ELSE m.reverse] :
         m \in {UdpIntervalLoop(rec, "max", 1,
                    [forward |-> 0, reverse |-> 0,
                     previous_forward |-> 0, previous_reverse |-> 0])}})

UdpCalcMinInterpacketInterval(rec) ==
    The({[forward |-> m.forward, reverse |-> m.reverse,
          both |-> IF m.forward < m.reverse THEN m.forward ELSE m.reverse] :
         m \in {UdpIntervalLoop(rec, "min", 1,
                    [forward |-> 0, reverse |-> 0,
                     previous_forward |-> 0, previous_reverse |-> 0])}})

\* Lines 692-731: the ratio of the intervals of both directions is computed
\* outside any try block; the decision that used the statistics is commented
\* out and the actions are always the default priority.
UdpDecideActions(rec) ==
    IF UdpCalcMaxInterpacketInterval(rec).both = 0
    THEN [kind |-> "ZeroDivisionError", actions |-> Py0]
    ELSE [kind |-> "return", actions |-> QosTag("QoS_treatment=default_priority")]

\* Lines 678-736: what the call does with the record and the packet number
\* that _udp_fcip_add_to_existing left. The record is finalised (line 685)
\* before the statistics are computed.
UdpAfterAddToExisting(table, table_ref, a) ==
    IF a.kind # "return"
    THEN [table |-> [table EXCEPT ![table_ref] = a.rec], ret |-> Raised(a.kind)]
    ELSE IF ReachedMaxPackets(a.n)
    THEN The({IF decided.kind # "return"
              THEN [table |-> [table EXCEPT ![table_ref] = FcipFinalise(a.rec)],
                    ret |-> Raised(decided.kind)]
              ELSE [table |-> [table EXCEPT ![table_ref] =
                            [FcipFinalise(a.rec) EXCEPT !.actions = decided.actions]],
                    ret |-> Returned(FALSE, decided.actions)] :
              decided \in {UdpDecideActions(FcipFinalise(a.rec))}})
    ELSE [table |-> [table EXCEPT ![table_ref] = a.rec],
          ret |-> Returned(TRUE, Py0)]

\* Lines 670-745: a packet of a flow that _udp_fcip_check found at table_ref.
UdpClassifyExisting(table, table_ref, pkt, time) ==
    IF ~FcipIsFinalised(table[table_ref])
    THEN The({UdpAfterAddToExisting(table, table_ref, a) :
                a \in {UdpFcipAddToExisting(table[table_ref], pkt, time)}})
    ELSE [table |-> table, ret |-> Returned(FALSE, table[table_ref].actions)]

\* _statistical_voip_p2p, lines 643-749. pkt.get_protocol returns None for
\* a header the packet does not have (a TCP segment and a UDP datagram have
\* an IPv4 header); line 658 reads _pkt_ipv4.src before the test for a UDP
\* header.
StatisticalVoipP2p(table, ref, pkt, time) ==
    IF pkt.proto \notin {"tcp", "udp"}
    THEN [table |-> table, ref |-> ref, ret |-> Raised("AttributeError")]
    ELSE IF pkt.proto # "udp"
    THEN [table |-> table, ref |-> ref, ret |-> Returned(FALSE, Py0)]
    ELSE LET table_ref == UdpFcipCheck(table, pkt) IN
         IF table_ref # 0
         THEN The({[table |-> c.table, ref |-> ref, ret |-> c.ret] :
                    c \in {UdpClassifyExisting(table, table_ref, pkt, time)}})
         ELSE [table |-> (ref :> UdpFcipAddNew(IF ref \in DOMAIN table THEN table[ref]
                                               ELSE BlankRecord, pkt, time)) @@ table,
               ref |-> ref + 1,
               ret |-> Returned(TRUE, Py0)]

\* check_statistical, lines 90-110: the classifier named by the policy
\* attribute runs; the result of _statistical_voip_p2p is dropped (line 104
\* is a comment) and the method ends at  return False.
ReturnedFalse ==
    [kind |-> "False", valid |-> FALSE, continue_to_inspect |-> FALSE, actions |-> Py0]
UnknownAttribute ==
    [kind |-> "return", valid |-> FALSE, continue_to_inspect |-> FALSE,
     actions |-> [kind |-> "'none'", d |-> EmptyDict]]

CheckStatistical(policy_attr, table, ref, pkt, time) ==
    IF policy_attr = "statistical_qos_bandwidth_1"
    THEN StatisticalQosBandwidth1(table, ref, pkt, time)
    ELSE IF policy_attr = "statistical_voip_p2p"
    THEN The({[r EXCEPT !.ret = IF @.kind = "return" THEN ReturnedFalse ELSE @] :
                r \in {StatisticalVoipP2p(table, ref, pkt, time)}})
    ELSE [table |-> table, ref |-> ref, ret |-> UnknownAttribute]

\* maintain_fcip_table, lines 619-641: the references collected for deletion
\* and the table without them.
ForDeletion(table, time, max_age_fcip) ==
    {r \in DOMAIN table :
        Truthy(table[r].time_last) /\ time - table[r].time_last > max_age_fcip}

MaintainFcipTable(table, time, max_age_fcip) ==
    [r \in (DOMAIN table) \ ForDeletion(table, time, max_age_fcip) |-> table[r]]

\* ------------------------------------------- the classifier's entry points

NoPacket ==
    [proto |-> "none", src |-> "", dst |-> "", src_port |-> 0, dst_port |-> 0,
     total_length |-> 0, window_size |-> 0, ack |-> 0, bits |-> 0, option |-> <<>>,
     csum |-> 0]
NoReturn ==
    [kind |-> "none", valid |-> FALSE, continue_to_inspect |-> FALSE, actions |-> Py0]
EmptyTable == [r \in {} |-> BlankRecord]

\* The bounds of a run: the clock and the samples of every record.
WithinBounds(table, time) ==
    /\ time <= MaxClock
    /\ \A r \in DOMAIN table : table[r].number_of_packets <= MaxSamples

\* One packet-in handed to _statistical_qos_bandwidth_1, dt seconds after the
\* previous event. A call that never returns stops the controller.
\* One call of a classifier: r is what it computed from the present table.
Call(method, policy_attr, pkt, time, r) ==
    /\ clock' = time
    /\ pkt_in' = pkt
    /\ called' = [method |-> method, policy_attr |-> policy_attr, max_age_fcip |-> 0]
    /\ fcip_table' = r.table
    /\ fcip_ref' = r.ref
    /\ stat_ret' = r.ret

PacketIn(Pkts, DTs) ==
    /\ stat_ret.kind # "hang"
    /\ \E pkt \in Pkts, dt \in DTs :
        \E r \in {StatisticalQosBandwidth1(fcip_table, fcip_ref, pkt, clock + dt)} :
        /\ WithinBounds(r.table, clock + dt)
        /\ Call("_statistical_qos_bandwidth_1", "", pkt, clock + dt, r)
    /\ UNCHANGED <<policy_vars, workers>>

\* A UDP-classifier call and a call through check_statistical.
UdpPacketIn(Pkts, DTs) ==
    /\ stat_ret.kind # "hang"
    /\ \E pkt \in Pkts, dt \in DTs :
        \E r \in {StatisticalVoipP2p(fcip_table, fcip_ref, pkt, clock + dt)} :
        /\ WithinBounds(r.table, clock + dt)
        /\ Call("_statistical_voip_p2p", "", pkt, clock + dt, r)
    /\ UNCHANGED <<policy_vars, workers>>

CheckStatisticalIn(Attrs, Pkts, DTs) ==
    /\ stat_ret.kind # "hang"
    /\ \E policy_attr \in Attrs, pkt \in Pkts, dt \in DTs :
        \E r \in {CheckStatistical(policy_attr, fcip_table, fcip_ref, pkt, clock + dt)} :
        /\ WithinBounds(r.table, clock + dt)
        /\ Call("check_statistical", policy_attr, pkt, clock + dt, r)
    /\ UNCHANGED <<policy_vars, workers>>

\* The aging trigger calls maintain_fcip_table(max_age_fcip): the event
\* hands no packet to the classifier.
Maintain(Ages, DTs) ==
    /\ stat_ret.kind # "hang"
    /\ \E max_age_fcip \in Ages, dt \in DTs :
        /\ clock + dt <= MaxClock
        /\ clock' = clock + dt
        /\ fcip_table' = MaintainFcipTable(fcip_table, clock + dt, max_age_fcip)
        /\ called' = [method |-> "maintain_fcip_table", policy_attr |-> "",
                      max_age_fcip |-> max_age_fcip]
    /\ pkt_in' = NoPacket
    /\ stat_ret' = NoReturn
    /\ UNCHANGED fcip_ref
    /\ UNCHANGED <<policy_vars, workers>>

\* ------------------------------------------------------ specifications

ActionValues == {"QoS_treatment=low_priority", "QoS_treatment=default_priority"}

\* Every dictionary over the valid action keys.
ActionDicts ==
    UNION {[K -> ActionValues] : K \in SUBSET TC_CONFIG_ACTIONS}

\* The rules' conditions: match_type first, then one attribute, and one
\* dictionary holding a nested one.
PolicyConditions ==
    {n \in FlatConditions :
        /\ Len(n.keys) = 2
        /\ n.keys[1] = MatchTypeKey
        /\ n.match_type \in {"any", "all"}
        /\ n.keys[2].attr \in {"tcp_src", "payload_type"}
        /\ (n.keys[2].attr = "payload_type" => n.keys[2].m)}
    \cup
    {n \in NestedConditions :
        /\ Len(n.keys) = 2
        /\ n.keys[1] = MatchTypeKey
        /\ n.match_type = "any"
        /\ n.keys[2].sub.match_type = "any"
        /\ n.keys[2].sub.keys = <<MatchTypeKey, LeafKey("tcp_dst", TRUE, FALSE)>>}

PolicyRuleActions ==
    {PyDict([k \in {"set_qos_tag"} |-> v]) : v \in ActionValues}

PolicyRules == [conditions : PolicyConditions, actions : PolicyRuleActions]

Policies == UNION {[1..n -> PolicyRules] : n \in 1..MaxRules}

InitFlow ==
    /\ fcip_table = EmptyTable
    /\ fcip_ref = 1
    /\ clock = 1
    /\ pkt_in = NoPacket
    /\ stat_ret = NoReturn
    /\ called = [method |-> "none", policy_attr |-> "", max_age_fcip |-> 0]
    /\ workers = [w \in {1, 2} |-> [at |-> "idle", pkt |-> NoPacket, table_ref |-> 0]]

InitCommon ==
    /\ InitFlow
    /\ pc = "idle"
    /\ rule_idx = 1
    /\ evaluated = <<>>
    /\ returned = <<>>
    /\ conditions = NoConditions
    /\ stack = <<>>
    /\ match_type = "none"
    /\ calls = <<>>
    /\ identity_in = {}
    /\ result = NoHitsResult

\* _check_conditions called directly on a conditions dictionary.
InitEval ==
    /\ tc_policy = <<>>
    /\ InitCommon

NextEval ==
    \/ CallCheckConditions(AllConditions)
    \/ Dispatch
    \/ Recurse
    \/ Decide
    \/ LoopEnd
    \/ ReturnNested
    \/ ReturnDirect

SpecEval == InitEval /\ [][NextEval]_vars

\* check_policy on an ingested policy.
InitPolicy ==
    /\ tc_policy \in Policies
    /\ InitCommon

NextPolicy ==
    \/ CheckPolicy(EtherTypes)
    \/ RuleCall
    \/ Dispatch
    \/ Recurse
    \/ Decide
    \/ LoopEnd
    \/ ReturnNested
    \/ RuleReturn
    \/ NoHits

SpecPolicy == InitPolicy /\ [][NextPolicy]_vars

\* The merge of lines 298-313 as a function of its two operands: check_policy
\* stands at line 294 with the result of a rule whose attribute matched,
\* the rule's actions being any dictionary that validate_policy accepts and
\* the actions of the result False or any dictionary over the same keys.
\* (_check_conditions of this revision leaves 'actions' False; the
\* dictionaries are the values the merge is written for.)
InitMerge ==
    /\ tc_policy \in {<<[conditions |-> c, actions |-> a]>> :
            c \in {n \in PolicyConditions :
                    /\ n.match_type = "any"
                    /\ n.keys[2].attr = "tcp_src"
                    /\ n.keys[2].m},
            a \in {PyDict(f) : f \in ActionDicts}}
    /\ pc = "rule_conditions"
    /\ rule_idx = 1
    /\ evaluated = <<1>>
    /\ returned = <<>>
    /\ conditions = tc_policy[1].conditions
    /\ stack \in {<<[NewFrame(conditions) EXCEPT !.i = 2, !.match = TRUE,
                                                  !.phase = "ret", !.rd.actions = a]>> :
            a \in {PyFalse} \cup {PyDict(f) : f \in ActionDicts}}
    /\ match_type = conditions.match_type
    /\ calls = <<[matcher |-> "static", attr |-> "tcp_src", depth |-> 1]>>
    /\ identity_in = {}
    /\ result = NoHitsResult
    /\ InitFlow

NextMerge == RuleReturn

SpecMerge == InitMerge /\ [][NextMerge]_vars

\* The TCP classifier on packets of the flow 10.0.0.1:1 <-> 10.0.0.2:2 in
\* both directions, packets of a second flow and a packet that is not TCP.
TcpPacket(src, src_port, dst, dst_port, total_length, window_size, ack, bits, option) ==
    [proto |-> "tcp", src |-> src, dst |-> dst, src_port |-> src_port,
     dst_port |-> dst_port, total_length |-> total_length,
     window_size |-> window_size, ack |-> ack, bits |-> bits, option |-> option,
     csum |-> 0]

TCP_FLAG_SYN == 2
TCP_FLAG_ACK == 16
\* NOP, window scale with shift 0
OptionNopWscale0 == <<1, 3, 3, 0>>
\* maximum segment size 1460, no window scale
OptionMssOnly == <<2, 4, 5, 180>>

Forward(total_length, window_size, ack, bits, option) ==
    TcpPacket("10.0.0.1", 1, "10.0.0.2", 2, total_length, window_size, ack, bits, option)
Reverse(total_length, window_size, ack, bits, option) ==
    TcpPacket("10.0.0.2", 2, "10.0.0.1", 1, total_length, window_size, ack, bits, option)
Other(total_length, window_size, ack, bits, option) ==
    TcpPacket("10.0.0.1", 2, "10.0.0.2", 1, total_length, window_size, ack, bits, option)

FlowPackets ==
    {Forward(60, 1, 0, TCP_FLAG_SYN, OptionNopWscale0),
     Reverse(1400, 2, 1, TCP_FLAG_ACK, <<>>),
     Forward(1400, 1, 1, TCP_FLAG_ACK, <<>>),
     Reverse(100, 2, 2, TCP_FLAG_ACK, <<>>),
     Forward(1400, 1, 2, TCP_FLAG_ACK, <<>>),
     Reverse(1400, 2, 3, TCP_FLAG_ACK, <<>>)}

\* The second flow opens with a SYN that carries no window scale option.
OtherFlowPackets ==
    {Other(60, 1, 0, TCP_FLAG_SYN, OptionMssOnly)}

ArpPacket == [NoPacket EXCEPT !.proto = "arp"]

TcpInputs == FlowPackets \cup OtherFlowPackets \cup {ArpPacket}

InitTcp ==
    /\ tc_policy = <<>>
    /\ InitCommon

NextTcp ==
    \/ PacketIn(TcpInputs, {0, 1})
    \/ Maintain({1}, {0, 1})

SpecTcp == InitTcp /\ [][NextTcp]_vars

\* The TCP classifier on the first MAX_PACKETS segments of one connection.
\* Segment k carries the acknowledgement number k, so that none is a
\* duplicate of an earlier one; its direction and the time since the segment
\* before it are free, and so is the size of the first and of the last one.
SamplesSeen ==
    IF 1 \in DOMAIN fcip_table /\ fcip_table[1].number_of_packets # Empty
    THEN fcip_table[1].number_of_packets
    ELSE 0

Segment(k, forward, total_length) ==
    IF forward THEN Forward(total_length, 1, k, TCP_FLAG_ACK, <<>>)
    ELSE Reverse(total_length, 2, k, TCP_FLAG_ACK, <<>>)

SegmentLengths(k) ==
    IF k = 1 THEN {100, 1200}
    ELSE IF k = MAX_PACKETS THEN {100, 1400}
    ELSE {100}

SegmentIn(DTs) ==
    /\ SamplesSeen < MAX_PACKETS
    /\ \E forward \in BOOLEAN, dt \in DTs :
        \E total_length \in SegmentLengths(SamplesSeen + 1) :
        \E pkt \in {Segment(SamplesSeen + 1, forward, total_length)} :
        \E r \in {StatisticalQosBandwidth1(fcip_table, fcip_ref, pkt, clock + dt)} :
            Call("_statistical_qos_bandwidth_1", "", pkt, clock + dt, r)
    /\ UNCHANGED <<policy_vars, workers>>

SpecDecide == InitTcp /\ [][SegmentIn({0, 1, 4})]_vars


\* Both classifiers and check_statistical on packets of four endpoint
\* pairs: a connection between two hosts and one between two ports of the
\* same host, each in both directions, as TCP segments and as UDP
\* datagrams, and a packet that is not IP. The table holds at most
\* MaxFlows records.
UdpPacket(src, src_port, dst, dst_port, total_length, csum) ==
    [NoPacket EXCEPT !.proto = "udp", !.src = src, !.dst = dst,
                     !.src_port = src_port, !.dst_port = dst_port,
                     !.total_length = total_length, !.csum = csum]

FlowsInputs ==
    {Forward(100, 1, 1, TCP_FLAG_ACK, <<>>),
     Reverse(100, 2, 1, TCP_FLAG_ACK, <<>>),
     TcpPacket("10.0.0.1", 1, "10.0.0.1", 2, 100, 1, 1, TCP_FLAG_ACK, <<>>),
     TcpPacket("10.0.0.1", 2, "10.0.0.1", 1, 100, 2, 1, TCP_FLAG_ACK, <<>>),
     UdpPacket("10.0.0.1", 1, "10.0.0.2", 2, 100, 1),
     UdpPacket("10.0.0.2", 2, "10.0.0.1", 1, 100, 2),
     UdpPacket("10.0.0.1", 1, "10.0.0.1", 2, 100, 3),
     UdpPacket("10.0.0.1", 2, "10.0.0.1", 1, 100, 4),
     ArpPacket}

\* check_statistical is handed the first segment and the first datagram of
\* the connection between the two hosts.
DispatchInputs ==
    {Forward(100, 1, 1, TCP_FLAG_ACK, <<>>),
     UdpPacket("10.0.0.1", 1, "10.0.0.2", 2, 100, 1)}

PolicyAttrs == {"statistical_qos_bandwidth_1", "statistical_voip_p2p", "statistical_other"}

NextFlows ==
    \/ PacketIn(FlowsInputs, {0}) /\ fcip_ref' <= MaxFlows + 1
    \/ UdpPacketIn(FlowsInputs, {0}) /\ fcip_ref' <= MaxFlows + 1
    \/ CheckStatisticalIn(PolicyAttrs, DispatchInputs, {0}) /\ fcip_ref' <= MaxFlows + 1
    \/ Maintain({0, 1}, {0, 1})

SpecFlows == InitTcp /\ [][NextFlows]_vars

\* The UDP classifier on the datagrams of one flow: datagram k carries the
\* checksum k, so that none is a duplicate of an earlier one; its direction
\* and the time since the datagram before it are free. One more datagram
\* follows the MAX_PACKETS that are sampled.
DatagramIn(DTs) ==
    /\ pkt_in.csum <= MAX_PACKETS
    /\ \E forward \in BOOLEAN, dt \in DTs :
        \E pkt \in {IF forward
                    THEN UdpPacket("10.0.0.1", 1, "10.0.0.2", 2, 100, pkt_in.csum + 1)
                    ELSE UdpPacket("10.0.0.2", 2, "10.0.0.1", 1, 100, pkt_in.csum + 1)} :
        \E r \in {StatisticalVoipP2p(fcip_table, fcip_ref, pkt, clock + dt)} :
            Call("_statistical_voip_p2p", "", pkt, clock + dt, r)
    /\ UNCHANGED <<policy_vars, workers>>

SpecUdp == InitTcp /\ [][DatagramIn({0, 1})]_vars

\* The TCP classifier on a connection whose SYN segments carry window scale
\* options: the opening SYN with shift 7 or shift 0, the SYN-ACK of the
\* other side with shift 2, and segments without SYN in both directions
\* with the raw window size 100 or 3. All arrive at the same time.
\* The option bytes are NOP, then window scale (type 3, length 3) and the
\* shift.
ScaleInputs ==
    {Forward(60, 100, 0, TCP_FLAG_SYN, <<1, 3, 3, 7>>),
     Forward(60, 100, 0, TCP_FLAG_SYN, OptionNopWscale0),
     Reverse(60, 100, 1, TCP_FLAG_SYN + TCP_FLAG_ACK, <<1, 3, 3, 2>>),
     Forward(100, 100, 1, TCP_FLAG_ACK, <<>>),
     Reverse(100, 100, 1, TCP_FLAG_ACK, <<>>),
     Forward(100, 3, 2, TCP_FLAG_ACK, <<>>)}

SpecScale == InitTcp /\ [][PacketIn(ScaleInputs, {0})]_vars

\* Two workers that each run _statistical_qos_bandwidth_1 on a segment of
\* the connection 10.0.0.1:1 <-> 10.0.0.2:2, with no lock around the
\* method: a worker may be suspended between the lookup of line 134 and the
\* rest of the method.
\* Line 134: _table_ref = self._fcip_check(pkt).
WorkerCheck(w, Pkts) ==
    /\ workers[w].at = "idle"
    /\ \E pkt \in Pkts :
        workers' = [workers EXCEPT ![w] = [at |-> "checked", pkt |-> pkt,
                                           table_ref |-> FcipCheck(fcip_table, pkt)]]
    /\ UNCHANGED <<fcip_table, fcip_ref, clock, pkt_in, stat_ret, called>>
    /\ UNCHANGED policy_vars

\* Lines 135-188 with the _table_ref of line 134, on the table as it is now.
WorkerClassify(w) ==
    /\ workers[w].at = "checked"
    /\ \E r \in {IF workers[w].table_ref # 0
                  THEN The({[table |-> c.table, ref |-> fcip_ref, ret |-> c.ret] :
                            c \in {ClassifyExisting(fcip_table, workers[w].table_ref,
                                                    workers[w].pkt, clock)}})
                  ELSE The({ClassifyNew(fcip_table, fcip_ref, a) :
                            a \in {FcipAddNew(IF fcip_ref \in DOMAIN fcip_table
                                              THEN fcip_table[fcip_ref]
                                              ELSE BlankRecord, workers[w].pkt, clock)}})} :
        /\ WithinBounds(r.table, clock)
        /\ r.ref <= MaxFlows + 1
        /\ Call("_statistical_qos_bandwidth_1", "", workers[w].pkt, clock, r)
    /\ workers' = [workers EXCEPT ![w] = [at |-> "idle", pkt |-> NoPacket, table_ref |-> 0]]
    /\ UNCHANGED policy_vars

SpecWorkers ==
    InitTcp /\ [][\E w \in {1, 2} :
                    \/ WorkerCheck(w, {Forward(100, 1, 1, TCP_FLAG_ACK, <<>>),
                                       Reverse(100, 2, 2, TCP_FLAG_ACK, <<>>),
                                       Forward(100, 1, 3, TCP_FLAG_ACK, <<>>)})
                    \/ WorkerClassify(w)]_vars

\* Both classifiers on segments and datagrams between the same two
\* endpoints, 10.0.0.1 port 1 and 10.0.0.2 port 2: a SYN without a
\* window-scale option, segments without SYN and datagrams.
SpecMixed ==
    InitTcp /\ [][\/ /\ PacketIn({Forward(60, 100, 0, TCP_FLAG_SYN, OptionMssOnly),
                                   Forward(100, 1, 1, TCP_FLAG_ACK, <<>>),
                                   Reverse(100, 2, 2, TCP_FLAG_ACK, <<>>)}, {0, 1})
                     /\ fcip_ref' <= MaxFlows + 1
                  \/ /\ UdpPacketIn({UdpPacket("10.0.0.1", 1, "10.0.0.2", 2, 100, 1),
                                      UdpPacket("10.0.0.2", 2, "10.0.0.1", 1, 100, 2),
                                      UdpPacket("10.0.0.1", 1, "10.0.0.2", 2, 100, 3)}, {0, 1})
                     /\ fcip_ref' <= MaxFlows + 1]_vars

\* The first SYN segment of a connection with every options field of up to
\* MaxOptionLen bytes over the option types end (0), no-operation (1),
\* maximum segment size (2), window scale (3) and a byte that is no type
\* the parser knows (7): _fcip_add_new hands the field to _tcp_window_scale.
SpecOptions ==
    InitTcp /\ [][/\ fcip_table = EmptyTable
                  /\ PacketIn({Forward(60, 100, 0, TCP_FLAG_SYN, option) :
                                 option \in UNION {[1..n -> {0, 1, 2, 3, 7}] :
                                                     n \in 0..MaxOptionLen}}, {0})]_vars


\* ------------------------------------------------------------------ claims

\* What the docstring of _check_conditions (lines 329-332) promises for a
\* dictionary: 'all' holds when every attribute matches, 'any' when one does;
\* the attributes are the keys other than match_type, a nested dictionary
\* counting as an attribute with its own outcome.
RECURSIVE AttributeMatches(_)
RECURSIVE TreeMatches(_)
AttributeMatches(key) ==
    IF PolicyAttrType(key.attr) = "conditions" THEN TreeMatches(key.sub) ELSE key.m
TreeMatches(node) ==
    LET attributes == {i \in 1..Len(node.keys) : node.keys[i].attr # "match_type"} IN
    IF node.match_type = "all"
    THEN \A i \in attributes : AttributeMatches(node.keys[i])
    ELSE \E i \in attributes : AttributeMatches(node.keys[i])

\* C1: for a conditions dictionary with match_type 'all', _check_conditions
\* returns match = False exactly when one of its attributes (a key other
\* than match_type) fails to match, and match = True when all of them match,
\* in every iteration order of the keys.
ClaimC1 ==
    (pc = "done" /\ conditions.match_type = "all")
        => (result.match = FALSE <=>
                \E i \in 1..Len(conditions.keys) :
                    /\ conditions.keys[i].attr # "match_type"
                    /\ ~AttributeMatches(conditions.keys[i]))

\* C2: for a conditions dictionary with match_type 'any', _check_conditions
\* returns match = True exactly when one of its attributes (a key other than
\* match_type) matches, in every iteration order of the keys.
ClaimC2 ==
    (pc = "done" /\ conditions.match_type = "any")
        => (result.match = TRUE <=>
                \E i \in 1..Len(conditions.keys) :
                    /\ conditions.keys[i].attr # "match_type"
                    /\ AttributeMatches(conditions.keys[i]))

\* C3: for the dictionary {match_type: all, A, {match_type: any, B, C}},
\* _check_conditions returns match = A and (B or C) for every outcome of the
\* leaves A, B, C and every iteration order of the keys.
ClaimC3 ==
    \A a, n \in 1..Len(conditions.keys) :
        LET A == conditions.keys[a]
            nested == conditions.keys[n]
        IN  (/\ pc = "done"
             /\ conditions.match_type = "all"
             /\ Len(conditions.keys) = 3
             /\ PolicyAttrType(A.attr) = "tcp"
             /\ PolicyAttrType(nested.attr) = "conditions"
             /\ nested.sub.match_type = "any"
             /\ Len(nested.sub.keys) = 3)
            => result.match =
                    (A.m /\ \E b \in 1..3 :
                                /\ nested.sub.keys[b].attr # "match_type"
                                /\ nested.sub.keys[b].m)

\* C4: the key match_type is skipped: no activation of _check_conditions
\* returns from inside the loop while the key under iteration is match_type,
\* whatever the match type and the position of the key.
ClaimC4 ==
    \A d \in 1..Len(stack) :
        (stack[d].phase = "ret" /\ stack[d].i <= Len(stack[d].node.keys))
            => stack[d].node.keys[stack[d].i].attr # "match_type"

\* C5: an attribute whose name starts with statistical_ is handed to the
\* statistical classifier (check_statistical), never to the static
\* matcher.
ClaimC5 ==
    \A c \in 1..Len(calls) :
        PolicyAttrType(calls[c].attr) = "statistical"
            => calls[c].matcher = "statistical"

\* C6: check_policy evaluates the rules in iteration order and stops at the
\* first whose conditions match: it returns that rule's result with the
\* merged actions and evaluates no later rule; when no rule matches, every
\* rule was evaluated and it returns match, continue_to_inspect and actions
\* all False.
TheoremC6 ==
    pc = "done" =>
        LET n == Len(returned) IN
        /\ evaluated = [k \in 1..n |-> k]
        /\ n <= Len(tc_policy)
        /\ \A k \in 1..(n - 1) : ~returned[k].match
        /\ IF n > 0 /\ returned[n].match
           THEN result = [match |-> TRUE,
                          continue_to_inspect |-> returned[n].continue_to_inspect,
                          actions |-> MergeActions(tc_policy[n].actions,
                                                   returned[n].actions)]
           ELSE n = Len(tc_policy) /\ result = NoHitsResult

\* check_policy returned at the first of two rules: the first matched and
\* the second was not evaluated.
WitnessC6 ==
    /\ pc = "done"
    /\ Len(tc_policy) = 2
    /\ evaluated = <<1>>
    /\ result.match
    /\ IsDict(result.actions)

ClaimC8 ==
    [][(pkt_in'.proto = "tcp" /\ FcipCheck(fcip_table, pkt_in') = 0)
        => /\ stat_ret' = Returned(TRUE, Py0)
           /\ \A r \in DOMAIN fcip_table :
                r \in DOMAIN fcip_table' /\ fcip_table'[r] = fcip_table[r]
           /\ \E new \in (DOMAIN fcip_table') \ (DOMAIN fcip_table) :
                /\ DOMAIN fcip_table' = (DOMAIN fcip_table) \cup {new}
                /\ fcip_table'[new].direction = <<"forward">>
                /\ Len(fcip_table'[new].arrival_time) = 1
                /\ fcip_table'[new].window_size = <<pkt_in'.window_size>>
                /\ fcip_table'[new].finalised = 0
                /\ fcip_table'[new].actions = Py0
                /\ fcip_table'[new].number_of_packets = 1]_vars

\* C9: a flow is finalised exactly by the call that accepts its 5th sample:
\* a packet of a flow that is not finalised returns continue_to_inspect True
\* and no actions and leaves the flow not finalised, unless it is the 5th
\* sample accepted, and then the call sets finalised, caches a set_qos_tag
\* action and returns it with continue_to_inspect False.
ClaimC9 ==
    [][\A r \in DOMAIN fcip_table :
        (/\ pkt_in'.proto = "tcp"
         /\ FcipCheck(fcip_table, pkt_in') = r
         /\ fcip_table[r].finalised # 1)
        => IF /\ fcip_table[r].number_of_packets = MAX_PACKETS - 1
              /\ FcipCheckDuplicate(fcip_table[r], pkt_in') = "False"
           THEN /\ fcip_table'[r].finalised = 1
                /\ fcip_table'[r].number_of_packets = MAX_PACKETS
                /\ IsDict(fcip_table'[r].actions)
                /\ DOMAIN fcip_table'[r].actions.d = {"set_qos_tag"}
                /\ stat_ret' = Returned(FALSE, fcip_table'[r].actions)
           ELSE /\ fcip_table'[r].finalised # 1
                /\ stat_ret' = Returned(TRUE, Py0)]_vars

\* C10: a finalised record stays in the table as it is (finalised, its
\* samples, number_of_packets, statistics and cached actions), and a packet
\* of its flow returns continue_to_inspect False with the cached actions.
TheoremC10 ==
    [][\A r \in DOMAIN fcip_table :
        fcip_table[r].finalised = 1
        => /\ r \in DOMAIN fcip_table'
           /\ fcip_table'[r] = fcip_table[r]
           /\ (pkt_in'.proto = "tcp" /\ FcipCheck(fcip_table, pkt_in') = r)
                => stat_ret' = Returned(FALSE, fcip_table[r].actions)]_vars

\* A packet that is no duplicate of any sample arrived for a finalised flow
\* and got the cached actions.
WitnessC10 ==
    \E r \in DOMAIN fcip_table :
        /\ fcip_table[r].finalised = 1
        /\ fcip_table[r].number_of_packets = MAX_PACKETS
        /\ pkt_in.proto = "tcp"
        /\ FcipCheck(fcip_table, pkt_in) = r
        /\ FcipCheckDuplicate(fcip_table[r], pkt_in) = "False"
        /\ IsDict(stat_ret.actions)
        /\ stat_ret = Returned(FALSE, fcip_table[r].actions)

\* C11: when a call of the TCP classifier accepts the 5th sample of a flow
\* (the record's number_of_packets goes from 4 to 5), the call returns
\* continue_to_inspect = False and the action set_qos_tag = low_priority if
\* the largest ip_total_length of the samples is above 1200 and the ratio of
\* the minimum to the maximum inter-packet interval (0 when either is zero)
\* is below 1/4, and the action set_qos_tag = default_priority otherwise.
ClaimC11 ==
    [][\A r \in DOMAIN fcip_table :
        (/\ called'.method = "_statistical_qos_bandwidth_1"
         /\ fcip_table[r].number_of_packets = 4
         /\ r \in DOMAIN fcip_table'
         /\ fcip_table'[r].number_of_packets = 5)
        => LET rec == fcip_table'[r]
               large == \E n \in 1..5 : rec.ip_total_length[n] > 1200
               min_interval == CalcMinInterpacketInterval(rec)
               max_interval == CalcMaxInterpacketInterval(rec)
               ratio_low == \/ min_interval = 0
                            \/ max_interval = 0
                            \/ 4 * min_interval < max_interval
           IN  /\ stat_ret'.kind = "return"
               /\ stat_ret'.continue_to_inspect = FALSE
               /\ stat_ret'.actions =
                    IF large /\ ratio_low
                    THEN PyDict([k \in {"set_qos_tag"} |-> "QoS_treatment=low_priority"])
                    ELSE PyDict([k \in {"set_qos_tag"} |-> "QoS_treatment=default_priority"])]_vars

\* C12: directional symmetry. For every record of the table, created by a
\* packet from (ip_A, port_A) to (ip_B, port_B), a later packet of the same
\* protocol from (ip_B, port_B) to (ip_A, port_A) handed to that protocol's
\* classifier is matched by the flow lookup to that record, creates no
\* record, and a sample it adds to the record has the direction "reverse".
ClaimC12 ==
    [][\A r \in DOMAIN fcip_table :
        LET rec == fcip_table[r]
            pkt == pkt_in'
            swapped(port_A, port_B) ==
                /\ pkt.src = rec.ip_B /\ pkt.src_port = port_B
                /\ pkt.dst = rec.ip_A /\ pkt.dst_port = port_A
            tcp_reply ==
                /\ called'.method = "_statistical_qos_bandwidth_1"
                /\ pkt.proto = "tcp" /\ rec.tcp_A # Empty
                /\ swapped(rec.tcp_A, rec.tcp_B)
            udp_reply ==
                /\ called'.method = "_statistical_voip_p2p"
                /\ pkt.proto = "udp" /\ rec.udp_A # Empty
                /\ swapped(rec.udp_A, rec.udp_B)
        IN  (tcp_reply \/ udp_reply)
            => /\ tcp_reply => r \in FcipMatches(fcip_table, pkt)
               /\ udp_reply => r \in UdpFcipMatches(fcip_table, pkt)
               /\ DOMAIN fcip_table' = DOMAIN fcip_table
               /\ fcip_ref' = fcip_ref
               /\ Len(fcip_table'[r].direction) > Len(rec.direction)
                    => fcip_table'[r].direction[Len(fcip_table'[r].direction)] = "reverse"]_vars

\* C13: the flow table never holds two records of the same protocol with
\* the same unordered pair of (IP, port) endpoints.
ClaimC13 ==
    \A r, q \in DOMAIN fcip_table :
        LET a == fcip_table[r]
            b == fcip_table[q]
            tcp_pair(rec) == {<<rec.ip_A, rec.tcp_A>>, <<rec.ip_B, rec.tcp_B>>}
            udp_pair(rec) == {<<rec.ip_A, rec.udp_A>>, <<rec.ip_B, rec.udp_B>>}
        IN  r # q =>
            /\ (a.tcp_A # Empty /\ b.tcp_A # Empty) => tcp_pair(a) # tcp_pair(b)
            /\ (a.udp_A # Empty /\ b.udp_A # Empty) => udp_pair(a) # udp_pair(b)

\* C14: flow-table idempotence. When the table holds a record that a packet
\* created (the record's endpoints are the packet's, in the packet's order,
\* and its only sample is that packet) and the identical packet is handed
\* to the same classifier again at once, the record still has exactly one
\* sample, no record is added, and the call returns continue_to_inspect =
\* True with no actions.
ClaimC14 ==
    [][\A r \in DOMAIN fcip_table :
        LET rec == fcip_table[r]
            pkt == pkt_in
            created ==
                /\ rec.ip_A = pkt.src /\ rec.ip_B = pkt.dst
                /\ \/ /\ called.method = "_statistical_qos_bandwidth_1"
                      /\ pkt.proto = "tcp"
                      /\ rec.tcp_A = pkt.src_port /\ rec.tcp_B = pkt.dst_port
                   \/ /\ called.method = "_statistical_voip_p2p"
                      /\ pkt.proto = "udp"
                      /\ rec.udp_A = pkt.src_port /\ rec.udp_B = pkt.dst_port
                /\ rec.direction = <<"forward">>
                /\ rec.ip_total_length = <<pkt.total_length>>
                /\ rec.arrival_time = <<clock>>
        IN  (created /\ pkt_in' = pkt_in /\ called' = called)
            => /\ stat_ret' = Returned(TRUE, Py0)
               /\ DOMAIN fcip_table' = DOMAIN fcip_table
               /\ fcip_table'[r].number_of_packets = 1
               /\ Len(fcip_table'[r].direction) = 1]_vars

\* C15: when a classifier is handed a packet of a flow whose record is not
\* finalised and the record already holds a sample with the packet's
\* deduplication key (window size, acknowledgement number and flags for TCP,
\* checksum for UDP), the append operation returns 0 and the record is left
\* as it was: number_of_packets, every sample field, the window-scale
\* shifts, finalised and actions keep their values.
TheoremC15 ==
    [][\A r \in DOMAIN fcip_table :
        LET rec == fcip_table[r]
            pkt == pkt_in'
            live == rec.finalised = 0 /\ rec.number_of_packets # Empty
            tcp_duplicate ==
                /\ called'.method = "_statistical_qos_bandwidth_1"
                /\ pkt.proto = "tcp"
                /\ FcipCheck(fcip_table, pkt) = r
                /\ live
                /\ \E n \in 1..rec.number_of_packets :
                        /\ rec.window_size[n] = pkt.window_size
                        /\ rec.ack[n] = pkt.ack
                        /\ rec.bits[n] = pkt.bits
            udp_duplicate ==
                /\ called'.method = "_statistical_voip_p2p"
                /\ pkt.proto = "udp"
                /\ UdpFcipCheck(fcip_table, pkt) = r
                /\ live
                /\ \E n \in 1..rec.number_of_packets : rec.csum[n] = pkt.csum
        IN  /\ tcp_duplicate =>
                /\ FcipAddToExisting(rec, pkt, clock').n = 0
                /\ FcipAddToExisting(rec, pkt, clock').rec = rec
            /\ udp_duplicate =>
                /\ UdpFcipAddToExisting(rec, pkt, clock').n = 0
                /\ UdpFcipAddToExisting(rec, pkt, clock').rec = rec
            /\ (tcp_duplicate \/ udp_duplicate) =>
                /\ fcip_table'[r] = rec
                /\ fcip_table'[r].number_of_packets = rec.number_of_packets
                /\ fcip_table'[r].window_scale = rec.window_scale
                /\ fcip_table'[r].finalised = rec.finalised
                /\ fcip_table'[r].actions = rec.actions]_vars

\* A duplicate was handed over: the last call was given the first segment
\* of a flow of two samples again.
WitnessC15 ==
    \E r \in DOMAIN fcip_table :
        /\ called.method = "_statistical_qos_bandwidth_1"
        /\ pkt_in.proto = "tcp"
        /\ r \in FcipMatches(fcip_table, pkt_in)
        /\ fcip_table[r].finalised = 0
        /\ fcip_table[r].number_of_packets = 2
        /\ fcip_table[r].window_size[1] = pkt_in.window_size
        /\ fcip_table[r].ack[1] = pkt_in.ack
        /\ fcip_table[r].bits[1] = pkt_in.bits
        /\ fcip_table[r].window_size[2] # pkt_in.window_size
        /\ stat_ret = Returned(TRUE, Py0)

\* C16: when the TCP classifier accepts a segment without SYN as sample n
\* of a record, in direction d, the window size stored for the sample is
\* the segment's raw window size shifted left by the shift the record
\* holds for d from an earlier SYN (raw * 2^shift), and the raw window size
\* when the record holds no shift for d; a segment without SYN that creates
\* a record is stored with its raw window size.
TheoremC16 ==
    [][(/\ called'.method = "_statistical_qos_bandwidth_1"
        /\ pkt_in'.proto = "tcp"
        /\ (pkt_in'.bits \div 2) % 2 = 0)
       => \A r \in DOMAIN fcip_table' :
            LET new == fcip_table'[r]
                n == Len(new.window_size)
                raw == pkt_in'.window_size
            IN  /\ (r \in DOMAIN fcip_table /\ new # fcip_table[r])
                    => LET shift == IF new.direction[n] = "forward"
                                    THEN fcip_table[r].window_scale.forward
                                    ELSE fcip_table[r].window_scale.reverse
                       IN  /\ n = Len(fcip_table[r].window_size) + 1
                           /\ new.window_size[n] =
                                IF shift = Empty THEN raw ELSE raw * 2^shift
                /\ r \notin DOMAIN fcip_table => new.window_size = <<raw>>]_vars

\* A segment with the raw window size 100 was stored as 12800 in a record
\* whose forward shift is 7.
WitnessC16 ==
    \E r \in DOMAIN fcip_table :
        LET rec == fcip_table[r]
            n == Len(rec.window_size)
        IN  /\ called.method = "_statistical_qos_bandwidth_1"
            /\ n > 1
            /\ n \notin rec.TCP_SYN
            /\ rec.direction[n] = "forward"
            /\ rec.window_scale.forward = 7
            /\ pkt_in.window_size = 100
            /\ rec.ack[n] = pkt_in.ack
            /\ rec.window_size[n] = 12800

\* C17: the aging sweep maintain_fcip_table(max_age_fcip) leaves in the
\* table exactly the records whose last accepted packet is not older than
\* max_age_fcip at the time of the sweep: a record whose last arrival time
\* is more than max_age_fcip before the current time is removed, every other
\* record is retained unchanged.
ClaimC17 ==
    [][called'.method = "maintain_fcip_table"
       => LET last_seen(rec) == rec.arrival_time[Len(rec.arrival_time)]
              retained == {r \in DOMAIN fcip_table :
                            clock' - last_seen(fcip_table[r]) <= called'.max_age_fcip}
          IN  /\ DOMAIN fcip_table' = retained
              /\ \A r \in retained : fcip_table'[r] = fcip_table[r]]_vars

\* C18: a packet without a TCP header handed to the TCP classifier, and a
\* packet without a UDP header handed to the UDP classifier (a packet that
\* is not IP included), is rejected: the call returns continue_to_inspect =
\* False with no actions, and the flow table and the reference counter are
\* left as they were.
ClaimC18 ==
    [][(\/ called'.method = "_statistical_qos_bandwidth_1" /\ pkt_in'.proto # "tcp"
        \/ called'.method = "_statistical_voip_p2p" /\ pkt_in'.proto # "udp")
       => /\ stat_ret'.kind = "return"
          /\ stat_ret'.continue_to_inspect = FALSE
          /\ stat_ret'.actions = Py0
          /\ fcip_table' = fcip_table
          /\ fcip_ref' = fcip_ref]_vars

\* C19: check_statistical returns a dictionary with the keys valid,
\* continue_to_inspect and actions for every policy attribute it is given;
\* for an attribute it does not know, valid and continue_to_inspect are
\* False.
ClaimC19 ==
    called.method = "check_statistical"
    => /\ stat_ret.kind = "return"
       /\ called.policy_attr \notin {"statistical_qos_bandwidth_1", "statistical_voip_p2p"}
            => (~stat_ret.valid /\ ~stat_ret.continue_to_inspect)

\* C20: every call of _statistical_qos_bandwidth_1 on a TCP segment runs to
\* its end and returns a result dictionary, whatever the directions of the
\* segments of the flow: no call ends in an error raised while
\* _fcip_add_to_existing computes the statistics of the new sample.
ClaimC20 ==
    (called.method = "_statistical_qos_bandwidth_1" /\ pkt_in.proto = "tcp")
    => stat_ret.kind = "return"

\* C22: short-circuit ordering. An activation of _check_conditions is never
\* about to invoke the matcher of an attribute (static, identity, payload
\* or a nested evaluation) when the attribute before it in the dictionary
\* has matched and the dictionary's match_type is 'any', or has failed to
\* match and the match_type is 'all': the matching (failing) attribute was
\* the last one to be evaluated.
ClaimC22 ==
    (/\ stack # <<>>
     /\ Top.phase = "loop"
     /\ Top.i > 1
     /\ Top.i <= Len(Top.node.keys)
     /\ TopKey.attr # "match_type"
     /\ Top.node.keys[Top.i - 1].attr # "match_type")
    => /\ ~(Top.node.match_type = "any" /\ Top.match)
       /\ ~(Top.node.match_type = "all" /\ ~Top.match)

\* C23: whenever an activation of _check_conditions decides on an attribute
\* (line 377) or runs the fallback after its loop (line 389), the match
\* type it reads is the match_type of its own conditions dictionary, also
\* after a nested dictionary was evaluated.
ClaimC23 ==
    (stack # <<>> /\ Top.phase \in {"loop", "decide"})
    => match_type = Top.node.match_type

\* C24: a direct call of _check_conditions on a dictionary whose match_type
\* is neither 'any' nor 'all' hands every attribute of the dictionary to its
\* matcher and returns match = False.
ClaimC24 ==
    (pc = "done" /\ conditions.match_type \notin {"any", "all"})
    => /\ result.match = FALSE
       /\ \A i \in 1..Len(conditions.keys) :
            PolicyAttrType(conditions.keys[i].attr) \notin {"conditions", "match"}
            => \E c \in 1..Len(calls) :
                calls[c].attr = conditions.keys[i].attr /\ calls[c].depth = 1

\* C21: flow references are never reused. Every reference in the table is
\* below the counter _fcip_ref, and a call that writes the record of a new
\* flow (a packet that the flow lookup matches to no record) stores it
\* under a reference that holds no record, the value of the counter, and
\* leaves the counter incremented by 1.
ClaimC21 ==
    [][LET new_flow ==
            \/ /\ called'.method = "_statistical_qos_bandwidth_1"
               /\ pkt_in'.proto = "tcp"
               /\ FcipMatches(fcip_table, pkt_in') = {}
            \/ /\ called'.method = "_statistical_voip_p2p"
               /\ pkt_in'.proto = "udp"
               /\ UdpFcipMatches(fcip_table, pkt_in') = {}
       IN  /\ \A r \in DOMAIN fcip_table' : r < fcip_ref'
           /\ new_flow =>
                /\ fcip_ref \notin DOMAIN fcip_table
                /\ DOMAIN fcip_table' = DOMAIN fcip_table \cup {fcip_ref}
                /\ fcip_ref' = fcip_ref + 1]_vars

\* C25: the cached actions of a record are written exactly once, in the step
\* of the classifier in which the record's finalised flag becomes true: a
\* step that changes the actions is the step that finalises the record, and
\* the step that finalises a record writes its actions.
ClaimC25 ==
    [][\A r \in DOMAIN fcip_table' :
        LET old == IF r \in DOMAIN fcip_table THEN fcip_table[r] ELSE BlankRecord
            new == fcip_table'[r]
            finalising == old.finalised # 1 /\ new.finalised = 1
        IN  /\ new.actions # old.actions => finalising
            /\ finalising => new.actions # Py0]_vars
\* C26: a step that accepts a sample into a record (the sample that creates
\* the record included) leaves the record's time_last at the arrival time
\* of that packet; a step that accepts none leaves time_last as it was.
ClaimC26 ==
    [][\A r \in DOMAIN fcip_table' :
        LET old == IF r \in DOMAIN fcip_table THEN fcip_table[r] ELSE BlankRecord
            new == fcip_table'[r]
        IN  IF Len(new.arrival_time) > Len(old.arrival_time)
            THEN new.time_last = clock'
            ELSE new.time_last = old.time_last]_vars
\* C27: for the options field of a connection's first SYN segment,
\* _tcp_window_scale returns what a walk over the field as TLVs finds: types
\* 0 and 1 advance one byte, any other type advances by its length byte, the
\* first type-3 option reached gives its value byte, and a field in which
\* the walk reaches no window-scale option (the empty field included)
\* gives 0. Fields on which the walk is not defined (a missing or zero
\* length byte, a window-scale option cut off before its value byte) are
\* left out.
ClaimC27 ==
    LET option == pkt_in.option
        n == Len(option)
        Malformed == -2
        RECURSIVE Walk(_)
        Walk(p) ==
            IF p > n THEN 0
            ELSE IF option[p] \in {0, 1} THEN Walk(p + 1)
            ELSE IF option[p] = 3
            THEN IF p + 2 <= n THEN option[p + 2] ELSE Malformed
            ELSE IF p + 1 <= n /\ option[p + 1] >= 1
            THEN Walk(p + option[p + 1])
            ELSE Malformed
    IN  (/\ called.method = "_statistical_qos_bandwidth_1"
         /\ pkt_in.proto = "tcp" /\ pkt_in.bits = TCP_FLAG_SYN
         /\ Walk(1) # Malformed)
        => /\ stat_ret.kind = "return"
           /\ 1 \in DOMAIN fcip_table
           /\ fcip_table[1].window_scale.forward = Walk(1)
\* C28: a step that accepts a SYN segment as a sample of a record (the
\* sample that creates the record or a later one), the segment travelling in
\* direction d of the record and carrying the options NOP, window scale s,
\* leaves the record's window_scale[d] at s; any other step leaves a stored
\* window_scale[d] as it was.
ClaimC28 ==
    [][\A r \in DOMAIN fcip_table' :
        LET old == IF r \in DOMAIN fcip_table THEN fcip_table[r] ELSE BlankRecord
            new == fcip_table'[r]
            option == pkt_in'.option
            accepted == Len(new.arrival_time) > Len(old.arrival_time)
            syn_with_shift ==
                /\ accepted
                /\ pkt_in'.proto = "tcp" /\ (pkt_in'.bits \div TCP_FLAG_SYN) % 2 = 1
                /\ Len(option) = 4 /\ option[1] = 1 /\ option[2] = 3 /\ option[3] = 3
        IN  \A d \in {"forward", "reverse"} :
                IF syn_with_shift /\ new.direction[Len(new.direction)] = d
                THEN new.window_scale[d] = option[4]
                ELSE old.window_scale[d] # Empty
                     => new.window_scale[d] = old.window_scale[d]]_vars
\* C29: on every record of the table whose samples carry arrival times of a
\* real clock (above 0), _calc_max_interpacket_interval returns the largest
\* and _calc_min_interpacket_interval the smallest gap between a sample and
\* the sample before it of the same direction, and both return 0 when no
\* direction has two samples.
ClaimC29 ==
    \A r \in DOMAIN fcip_table :
        LET rec == fcip_table[r]
            samples == 1..Len(rec.arrival_time)
            consecutive(i, j) ==
                /\ i < j /\ rec.direction[i] = rec.direction[j]
                /\ \A k \in samples : (i < k /\ k < j) => rec.direction[k] # rec.direction[i]
            gaps == {rec.arrival_time[j] - rec.arrival_time[i] :
                        <<i, j>> \in {p \in samples \X samples : consecutive(p[1], p[2])}}
            largest == CalcMaxInterpacketInterval(rec)
            smallest == CalcMinInterpacketInterval(rec)
        IN  (/\ Len(rec.direction) = Len(rec.arrival_time)
             /\ \A i \in samples : rec.arrival_time[i] > 0)
            => IF gaps = {}
               THEN largest = 0 /\ smallest = 0
               ELSE /\ largest \in gaps /\ \A g \in gaps : g <= largest
                    /\ smallest \in gaps /\ \A g \in gaps : smallest <= g
\* C30: no step (a packet, a duplicate, the finalising packet, the sweep)
\* changes the endpoint fields ip_A, ip_B, tcp_A, tcp_B, udp_A, udp_B of a
\* record that the table holds before and after the step.
ClaimC30 ==
    [][\A r \in DOMAIN fcip_table \cap DOMAIN fcip_table' :
        /\ fcip_table'[r].ip_A = fcip_table[r].ip_A
        /\ fcip_table'[r].ip_B = fcip_table[r].ip_B
        /\ fcip_table'[r].tcp_A = fcip_table[r].tcp_A
        /\ fcip_table'[r].tcp_B = fcip_table[r].tcp_B
        /\ fcip_table'[r].udp_A = fcip_table[r].udp_A
        /\ fcip_table'[r].udp_B = fcip_table[r].udp_B]_vars
\* C31: after every step the samples of every record carry the indices
\* 1..number_of_packets without a gap (the direction, the arrival time and
\* the length of each are stored), and a step gives a record at most one
\* more sample, which gets the index after the last one.
ClaimC31 ==
    [][\A r \in DOMAIN fcip_table' :
        LET old == IF r \in DOMAIN fcip_table THEN fcip_table[r] ELSE BlankRecord
            new == fcip_table'[r]
        IN  /\ new.number_of_packets = Len(new.arrival_time)
            /\ new.number_of_packets = Len(new.direction)
            /\ new.number_of_packets = Len(new.ip_total_length)
            /\ Len(new.arrival_time) \in {Len(old.arrival_time), Len(old.arrival_time) + 1}]_vars
\* C32: once the UDP classifier has finalised a flow, the actions cached
\* in its record and returned by the call are set_qos_tag =
\* QoS_treatment=default_priority, whatever sizes and intervals were seen.
ClaimC32 ==
    \A r \in DOMAIN fcip_table :
        (called.method = "_statistical_voip_p2p" /\ fcip_table[r].finalised = 1)
        => /\ fcip_table[r].actions = QosTag("QoS_treatment=default_priority")
           /\ stat_ret.actions = QosTag("QoS_treatment=default_priority")
\* C33: the call of _statistical_voip_p2p that accepts the fifth sample of
\* a UDP flow completes whatever the arrival times and the directions of
\* the samples are: it raises nothing, tells the caller to stop inspecting
\* and returns the actions it cached in the record.
ClaimC33 ==
    [][\A r \in DOMAIN fcip_table' :
        LET old == IF r \in DOMAIN fcip_table THEN fcip_table[r] ELSE BlankRecord
            new == fcip_table'[r]
        IN  (/\ called'.method = "_statistical_voip_p2p"
             /\ Len(old.arrival_time) = MAX_PACKETS - 1
             /\ Len(new.arrival_time) = MAX_PACKETS)
            => /\ stat_ret'.kind = "return"
               /\ stat_ret'.continue_to_inspect = FALSE
               /\ IsDict(stat_ret'.actions)
               /\ new.actions = stat_ret'.actions]_vars

\* C37: in every state between two steps a finalised record holds decided
\* actions, a set_qos_tag dictionary, never the value 0 it was created with.
ClaimC37 ==
    \A r \in DOMAIN fcip_table :
        fcip_table[r].finalised = 1
        => /\ IsDict(fcip_table[r].actions)
           /\ DOMAIN fcip_table[r].actions.d = {"set_qos_tag"}
\* C34: on every UDP record whose samples carry arrival times of a real
\* clock (above 0), the 'both' value of _udp_calc_min_interpacket_interval
\* is the smallest gap between consecutive samples of one direction, taken
\* over the directions that have such a gap (a direction with fewer than
\* two samples counts as absent, not as 0), and the 'both' value of
\* _udp_calc_max_packet_size is the larger of the two directions' largest
\* sizes.
ClaimC34 ==
    \A r \in DOMAIN fcip_table :
        LET rec == fcip_table[r]
            samples == 1..Len(rec.arrival_time)
            consecutive(i, j) ==
                /\ i < j /\ rec.direction[i] = rec.direction[j]
                /\ \A k \in samples : (i < k /\ k < j) => rec.direction[k] # rec.direction[i]
            gaps == {rec.arrival_time[j] - rec.arrival_time[i] :
                        <<i, j>> \in {p \in samples \X samples : consecutive(p[1], p[2])}}
            sizes == {rec.ip_total_length[i] : i \in samples}
            smallest == UdpCalcMinInterpacketInterval(rec).both
            largest_size == UdpCalcMaxPacketSize(rec).both
        IN  (/\ rec.udp_A # Empty
             /\ samples # {}
             /\ Len(rec.direction) = Len(rec.arrival_time)
             /\ Len(rec.ip_total_length) = Len(rec.arrival_time)
             /\ \A i \in samples : rec.arrival_time[i] > 0)
            => /\ gaps # {} => (smallest \in gaps /\ \A g \in gaps : smallest <= g)
               /\ largest_size \in sizes /\ \A z \in sizes : z <= largest_size
\* C36: in every state between two steps no record holds more than
\* MAX_PACKETS samples, and a record that holds MAX_PACKETS samples is
\* finalised.
ClaimC36 ==
    \A r \in DOMAIN fcip_table :
        /\ fcip_table[r].number_of_packets <= MAX_PACKETS
        /\ Len(fcip_table[r].arrival_time) <= MAX_PACKETS
        /\ fcip_table[r].number_of_packets = MAX_PACKETS => fcip_table[r].finalised = 1
\* C38: _tcp_window_scale terminates on every options field: no call of the
\* classifier with a SYN segment ends in the loop of _tcp_window_scale that
\* no longer advances its position.
ClaimC38 ==
    (called.method = "_statistical_qos_bandwidth_1" /\ pkt_in.bits = TCP_FLAG_SYN)
    => stat_ret.kind # "hang"
\* C39: when the TCP classifier has just stored a segment as the last
\* sample of a record that is not finalised (with its raw window size or
\* with the window size shifted by the record's shift for its direction)
\* and is handed the identical segment again, the second call detects a
\* duplicate: it adds no sample, leaves the table as it was and returns
\* continue_to_inspect True without actions.
ClaimC39 ==
    [][\A r \in DOMAIN fcip_table :
        LET rec == fcip_table[r]
            n == rec.number_of_packets
            d == FcipCheckIp(rec, pkt_in.src, pkt_in.dst)
            just_accepted ==
                /\ called.method = "_statistical_qos_bandwidth_1"
                /\ pkt_in.proto = "tcp"
                /\ stat_ret = Returned(TRUE, Py0)
                /\ FcipCheck(fcip_table, pkt_in) = r
                /\ rec.finalised = 0
                /\ n # Empty /\ n = Len(rec.window_size) /\ n = Len(rec.direction)
                /\ rec.direction[n] = d
                /\ rec.ack[n] = pkt_in.ack /\ rec.bits[n] = pkt_in.bits
                /\ rec.arrival_time[n] = clock
                /\ \/ rec.window_size[n] = pkt_in.window_size
                   \/ /\ rec.window_scale[d] # Empty
                      /\ rec.window_size[n] = pkt_in.window_size * 2^rec.window_scale[d]
        IN  (/\ just_accepted
             /\ called'.method = "_statistical_qos_bandwidth_1"
             /\ pkt_in' = pkt_in)
            => /\ fcip_table' = fcip_table
               /\ stat_ret' = Returned(TRUE, Py0)]_vars
\* C40: a call of the UDP classifier with a datagram leaves every record
\* that a TCP segment created (a record with TCP ports) as it was, and a
\* call of the TCP classifier with a segment leaves every record that a
\* datagram created (a record with UDP ports) as it was; no record carries
\* the ports of both protocols.
ClaimC40 ==
    [][/\ \A r \in DOMAIN fcip_table \cap DOMAIN fcip_table' :
            /\ (/\ called'.method = "_statistical_voip_p2p" /\ pkt_in'.proto = "udp"
                /\ fcip_table[r].tcp_A # Empty)
               => fcip_table'[r] = fcip_table[r]
            /\ (/\ called'.method = "_statistical_qos_bandwidth_1" /\ pkt_in'.proto = "tcp"
                /\ fcip_table[r].udp_A # Empty)
               => fcip_table'[r] = fcip_table[r]
       /\ \A r \in DOMAIN fcip_table' :
            fcip_table'[r].tcp_A = Empty \/ fcip_table'[r].udp_A = Empty]_vars
\* C35: with two workers classifying segments of one connection, the
\* lookup, the insertion or the append, the finalisation and the write of
\* the actions of one classification are atomic with respect to the other,
\* so that whatever the interleaving of the workers the table never holds
\* two records for the connection.
ClaimC35 ==
    \A r, q \in DOMAIN fcip_table :
        (/\ r # q
         /\ fcip_table[r].tcp_A # Empty /\ fcip_table[q].tcp_A # Empty
         /\ {<<fcip_table[r].ip_A, fcip_table[r].tcp_A>>, <<fcip_table[r].ip_B, fcip_table[r].tcp_B>>}
            = {<<fcip_table[q].ip_A, fcip_table[q].tcp_A>>, <<fcip_table[q].ip_B, fcip_table[q].tcp_B>>})
        => FALSE
====
